---------------------------- MODULE Spec2Model ----------------------------
(***************************************************************************)
(* A model of the rule-based core of adina-bot: the lead scoring engine    *)
(* (backend/app/agent/scoring.py), the reply intent classifier and the     *)
(* follow-up drafting engine (backend/app/agent/responses.py), the         *)
(* outreach drafting engine (backend/app/agent/outbound.py), the two       *)
(* configuration loaders (backend/app/utils), and the request handlers of  *)
(* backend/app/main.py that score leads and send email, over the tables    *)
(* of backend/app/models.py.                                               *)
(*                                                                         *)
(* Conventions.                                                            *)
(*  - A Python str is a TLA+ string; substring tests, lower(), split(),    *)
(*    strip() and replace() are computed character by character.          *)
(*  - An Optional value is a set with at most one element: None is {} and  *)
(*    a present value v is {v}.                                            *)
(*  - The scores are Python floats holding whole numbers; they are         *)
(*    integers here.                                                       *)
(*  - The source's em dash (U+2014) is written "--" in string literals.    *)
(*  - A call's outcome is a record tagged "ok" (a returned value) or       *)
(*    "raise" (the exception that escaped); "none" before any call.        *)
(*  - The handlers are plain `def` endpoints, which FastAPI runs on a      *)
(*    thread pool: requests interleave. A request holds its own database   *)
(*    session (db.py: autoflush=False); a SELECT reads the committed rows  *)
(*    of that moment, writes reach the tables at commit. A step of a       *)
(*    request is the code between two calls of the mail provider.          *)
(*  - The model covers one calendar day: date.today() is the same date in  *)
(*    every request.                                                       *)
(***************************************************************************)
EXTENDS Integers, Sequences, FiniteSets, Bags, TLC

VARIABLES
    KNOWLEDGE_PACK,             \* utils/knowledge_pack.py: KNOWLEDGE_PACK
    KNOWLEDGE_PACK_INDUSTRIES,  \* agent/scoring.py: KNOWLEDGE_PACK_INDUSTRIES
    RESPONSE_PLAYBOOK,          \* utils/response_playbook.py: RESPONSE_PLAYBOOK
    lead,                       \* the Lead a request works on
    inbound_text,               \* the inbound reply text of a request
    intent_label,               \* the intent handed to the follow-up engine
    scoreResult,                \* outcome of the last score_lead call
    classification,             \* outcome of the last classify_reply_detailed call
    followup,                   \* outcome of the last draft_followup_with_context call
    draft,                      \* outcome of the last draft_outreach_email call
    label_args,                 \* the (score, has_neg) handed to get_quality_label
    quality_label,              \* outcome of the last get_quality_label call
    industry_arg,               \* the industry handed to get_industry_relevance
    relevanceResult,            \* outcome of the last get_industry_relevance call
    timeframe,                  \* outcome of the last _extract_timeframe call
    matched_signals,            \* outcome of the last get_matched_signals call
    db_leads,                   \* the committed rows of table leads, by id
    sent_emails,                \* the committed rows of table sent_emails, a bag
    daily_email_counts,         \* the committed count of today's daily_email_counts row
    mailbox,                    \* the messages the mail provider accepted today, a bag
    requests,                   \* the HTTP requests: handler, position, database session
    process                     \* "running", or the exception that ended the import

vars == << KNOWLEDGE_PACK, KNOWLEDGE_PACK_INDUSTRIES, RESPONSE_PLAYBOOK, lead,
           inbound_text, intent_label, scoreResult, classification, followup, draft,
           label_args, quality_label, industry_arg, relevanceResult,
           timeframe, matched_signals, db_leads, sent_emails, daily_email_counts,
           mailbox, requests, process >>

configVars == << KNOWLEDGE_PACK, KNOWLEDGE_PACK_INDUSTRIES, RESPONSE_PLAYBOOK >>
inputVars == << lead, inbound_text, intent_label >>
resultVars == << scoreResult, classification, followup, draft >>
labelVars == << label_args, quality_label >>
relevanceVars == << industry_arg, relevanceResult >>
diagVars == << timeframe, matched_signals >>
dbVars == << db_leads, sent_emails, daily_email_counts >>
engineVars == << inputVars, resultVars, labelVars, relevanceVars, diagVars >>

-----------------------------------------------------------------------------
(* Python values *)

None == {}

Some(v) == {v}

\* the value held by a present Optional
Val(o) == CHOOSE v \in o : TRUE

\* Python truthiness of an Optional[str]: neither None nor ""
Truthy(o) == o # None /\ o # Some("")

\* Python's `o or d` for an Optional[str]
OrElse(o, d) == IF Truthy(o) THEN Val(o) ELSE d

NoResult == [tag |-> "none"]

Raise(exc) == [tag |-> "raise", exc |-> exc]

\* dict.get(k, default) on a dict modelled as a function over its keys
Get(d, k, default) == IF k \in DOMAIN d THEN d[k] ELSE default

\* a JSON document as json.load returns it: a dict, or anything else
Dict(d) == [type |-> "dict", items |-> d]

NotADict(kind) == [type |-> kind]

EmptyDict == [k \in {} |-> ""]

-----------------------------------------------------------------------------
(* Python str operations *)

UpperToLower ==
    [A |-> "a", B |-> "b", C |-> "c", D |-> "d", E |-> "e", F |-> "f", G |-> "g",
     H |-> "h", I |-> "i", J |-> "j", K |-> "k", L |-> "l", M |-> "m", N |-> "n",
     O |-> "o", P |-> "p", Q |-> "q", R |-> "r", S |-> "s", T |-> "t", U |-> "u",
     V |-> "v", W |-> "w", X |-> "x", Y |-> "y", Z |-> "z"]

\* str.lower() of one character
LowerChar(c) == IF c \in DOMAIN UpperToLower THEN UpperToLower[c] ELSE c

\* str.lower()
RECURSIVE Lower(_)
Lower(s) ==
    IF Len(s) = 0 THEN ""
    ELSE LowerChar(SubSeq(s, 1, 1)) \o Lower(SubSeq(s, 2, Len(s)))

\* `p in t` for two str
Contains(t, p) ==
    \E i \in 1..(Len(t) - Len(p) + 1) : SubSeq(t, i, i + Len(p) - 1) = p

\* any(p in t for p in phrases)
ContainsAny(t, phrases) == \E i \in 1..Len(phrases) : Contains(t, phrases[i])

\* [p for p in phrases if p in t]
RECURSIVE Matches(_, _)
Matches(t, phrases) ==
    IF phrases = << >> THEN << >>
    ELSE (IF Contains(t, Head(phrases)) THEN << Head(phrases) >> ELSE << >>)
         \o Matches(t, Tail(phrases))

IsSpace(c) == c \in {" ", "\t", "\n", "\r"}

\* str.lstrip(), str.rstrip(), str.strip()
RECURSIVE LStrip(_)
LStrip(s) ==
    IF Len(s) > 0 /\ IsSpace(SubSeq(s, 1, 1)) THEN LStrip(SubSeq(s, 2, Len(s))) ELSE s

RECURSIVE RStrip(_)
RStrip(s) ==
    IF Len(s) > 0 /\ IsSpace(SubSeq(s, Len(s), Len(s)))
    THEN RStrip(SubSeq(s, 1, Len(s) - 1)) ELSE s

Strip(s) == RStrip(LStrip(s))

\* str.split(sep) for a one-character sep: every sep cuts, empty pieces are kept
RECURSIVE SplitOn(_, _)
SplitOn(s, sep) ==
    IF ~Contains(s, sep) THEN << s >>
    ELSE LET i == CHOOSE i \in 1..Len(s) :
                      /\ SubSeq(s, i, i) = sep
                      /\ \A j \in 1..(i - 1) : SubSeq(s, j, j) # sep
         IN  << SubSeq(s, 1, i - 1) >> \o SplitOn(SubSeq(s, i + 1, Len(s)), sep)

\* the length of the longest prefix of s without white space
RECURSIVE WordLen(_)
WordLen(s) ==
    IF Len(s) = 0 \/ IsSpace(SubSeq(s, 1, 1)) THEN 0
    ELSE 1 + WordLen(SubSeq(s, 2, Len(s)))

\* str.split(): cut at runs of white space, no empty pieces
RECURSIVE Split(_)
Split(s) ==
    LET t == LStrip(s)
        n == WordLen(t)
    IN  IF Len(t) = 0 THEN << >>
        ELSE << SubSeq(t, 1, n) >> \o Split(SubSeq(t, n + 1, Len(t)))

\* sep.join(parts)
RECURSIVE Join(_, _)
Join(parts, sep) ==
    IF parts = << >> THEN ""
    ELSE IF Len(parts) = 1 THEN parts[1]
    ELSE parts[1] \o sep \o Join(Tail(parts), sep)

\* str.replace(old, new) for a non-empty old: leftmost occurrences, not overlapping
RECURSIVE Replace(_, _, _)
Replace(s, old, new) ==
    IF Len(s) < Len(old) THEN s
    ELSE IF SubSeq(s, 1, Len(old)) = old
         THEN new \o Replace(SubSeq(s, Len(old) + 1, Len(s)), old, new)
         ELSE SubSeq(s, 1, 1) \o Replace(SubSeq(s, 2, Len(s)), old, new)


-----------------------------------------------------------------------------
(* utils/knowledge_pack.py and utils/response_playbook.py: the loaders *)

\* The file a loader finds: absent (path.exists() is false), unreadable (open
\* raises OSError), unparseable (json.load raises JSONDecodeError), failing in
\* another way (any other Exception), or parsed into the document `data`.
Absent == [state |-> "absent"]
Unreadable == [state |-> "OSError"]
Unparseable == [state |-> "JSONDecodeError"]
OtherError == [state |-> "Exception"]
Parsed(data) == [state |-> "parsed", data |-> data]

load_knowledge_pack(file) ==
    IF file.state = "absent" THEN Dict(EmptyDict)
    ELSE IF file.state = "parsed" THEN file.data
    ELSE Dict(EmptyDict)

_empty_playbook ==
    Dict([intent_classification |->
              << << "positive", [keywords |-> << >>, patterns |-> << >>] >>,
                 << "neutral", [keywords |-> << >>, patterns |-> << >>] >>,
                 << "objection", [keywords |-> << >>, patterns |-> << >>] >>,
                 << "deferral", [keywords |-> << >>, patterns |-> << >>] >>,
                 << "negative", [keywords |-> << >>, patterns |-> << >>] >> >>,
          followup_templates |->
              [positive |-> [template |-> "", tone |-> ""],
               neutral |-> [template |-> "", tone |-> ""],
               objection |-> [templates_by_objection |-> [default |-> ""], tone |-> ""],
               deferral |-> [template |-> "", tone |-> ""],
               negative |-> [template |-> "", tone |-> ""]]])

load_response_playbook(file) ==
    IF file.state = "absent" THEN _empty_playbook
    ELSE IF file.state = "parsed" THEN file.data
    ELSE _empty_playbook

\* [industry.lower() for industry in KNOWLEDGE_PACK.get("industries_served", [])],
\* evaluated when agent/scoring.py is imported; .get on a document that is not a
\* dict raises AttributeError and ends the import
ImportScoring(kp) ==
    IF kp.type # "dict" THEN Raise("AttributeError")
    ELSE LET served == Get(kp.items, "industries_served", << >>)
         IN  [tag |-> "ok", value |-> [i \in 1..Len(served) |-> Lower(served[i])]]

-----------------------------------------------------------------------------
(* agent/scoring.py: the signal lexicons *)

\* scoring.py:29-29
REGULATED_INDUSTRIES ==
    << "healthcare", "real estate" >>

\* scoring.py:35-54
FOUNDER_LED_SIGNALS ==
    << "founder-led", "founder led", "founder owned", "owner-operated",
       "owner operated", "ceo does everything", "founder still doing",
       "outpaced", "outgrown", "no systems", "no infrastructure",
       "infrastructure gap", "lacks infrastructure", "still founder-run",
       "founder runs", "founder is the bottleneck", "founder bottleneck",
       "leadership bottleneck" >>

\* scoring.py:57-75
REVENUE_SCALE_SIGNALS ==
    << "10m+", "$10m", "10 million", "eight figure", "eight-figure",
       "multi-million", "scaling revenue", "revenue growth", "seven figure",
       "7-figure", "8-figure", "growing fast", "rapid growth", "scale-up",
       "scale up", "high growth", "hypergrowth" >>

\* scoring.py:78-97
BURNOUT_SIGNALS ==
    << "60+ hours", "60 hours", "70 hours", "80 hours", "working 60",
       "working 70", "working 80", "burnout", "burned out", "burnt out",
       "wearing all hats", "wearing every hat", "doing everything",
       "can't delegate", "cannot delegate", "stretched thin",
       "overwhelmed founder", "stretched too thin" >>

\* scoring.py:102-115
EARLY_STAGE_SIGNALS ==
    << "pre-revenue", "pre revenue", "no revenue", "idea stage",
       "concept stage", "pre-launch", "pre launch", "not yet launched",
       "early stage", "just starting", "just launched", "newly launched" >>

\* scoring.py:118-131
LIFESTYLE_SIGNALS ==
    << "lifestyle business", "lifestyle brand", "solopreneur",
       "solo business", "one-person shop", "one person shop", "freelancer",
       "self-employed", "hobby business", "side project", "side hustle",
       "part-time business" >>

\* scoring.py:134-153
NEGATIVE_SIGNALS ==
    << "only hiring brokers", "only hiring analysts", "only hiring for sales",
       "only hiring sales", "only hiring agents",
       "no immediate hiring for strategy", "no immediate hiring for ops",
       "no immediate hiring for strateg", "no immediate need", "no overlap",
       "not a fit", "not interested", "no operational need",
       "no plans to hire", "no need for", "downsizing", "laying off",
       "restructuring" >>

\* scoring.py:156-177
STRONG_POSITIVE_SIGNALS ==
    << "hot lead", "strong lead", "needs procurement", "needs supply",
       "needs operations", "needs ops", "needs strategy", "needs logistics",
       "needs project manager", "needs senior consultant",
       "needs coordinator", "needs director", "needs manager",
       "in need of supply", "in need of strategy", "in need of operations",
       "in need of ops", "in need of logistics", "urgent need",
       "immediate need" >>

\* scoring.py:180-193
OPS_KEYWORDS ==
    << "ops", "operations", "scaling", "scale", "growth", "growing", "expand",
       "expansion", "coordinator", "manager", "director", "looking for" >>

\* scoring.py:196-215
US_LOCATIONS ==
    << "alabama", "alaska", "arizona", "arkansas", "california", "colorado",
       "connecticut", "delaware", "florida", "georgia", "hawaii", "idaho",
       "illinois", "indiana", "iowa", "kansas", "kentucky", "louisiana",
       "maine", "maryland", "massachusetts", "michigan", "minnesota",
       "mississippi", "missouri", "montana", "nebraska", "nevada",
       "new hampshire", "new jersey", "new mexico", "new york",
       "north carolina", "north dakota", "ohio", "oklahoma", "oregon",
       "pennsylvania", "rhode island", "south carolina", "south dakota",
       "tennessee", "texas", "utah", "vermont", "virginia", "washington",
       "west virginia", "wisconsin", "wyoming", "district of columbia", "usa",
       "united states", "u.s.", "us", "al", "ak", "az", "ar", "ca", "co",
       "ct", "de", "fl", "ga", "hi", "id", "il", "in", "ia", "ks", "ky", "la",
       "me", "md", "ma", "mi", "mn", "ms", "mo", "mt", "ne", "nv", "nh", "nj",
       "nm", "ny", "nc", "nd", "oh", "ok", "or", "pa", "ri", "sc", "sd", "tn",
       "tx", "ut", "vt", "va", "wa", "wv", "wi", "wy", "dc" >>

\* has_early_stage_signal's list for the stage field, scoring.py:309
\* a variant of the stage list with "pre seed" for "pre-seed" and no "pre revenue"
STAGE_EARLY_SIGNALS_SPACED == << "pre-revenue", "pre seed", "idea", "concept" >>

\* scoring.py:309: the early-stage indicators looked for in lead.stage
STAGE_EARLY_SIGNALS == << "pre-revenue", "pre revenue", "pre-seed", "idea", "concept" >>

-----------------------------------------------------------------------------
(* agent/scoring.py: the rules *)

_notes_text(l) ==
    Lower(Join(<< OrElse(l.notes, ""), OrElse(l.company_description, "") >>, " "))

is_industry_match(industry) ==
    IF ~Truthy(industry) THEN FALSE
    ELSE LET industry_lower == Lower(Val(industry))
         IN  \E i \in 1..Len(KNOWLEDGE_PACK_INDUSTRIES) :
                 LET kp_industry == KNOWLEDGE_PACK_INDUSTRIES[i]
                     terms == Split(kp_industry)
                 IN  \/ Contains(industry_lower, kp_industry)
                     \/ Contains(kp_industry, industry_lower)
                     \/ \E j \in 1..Len(terms) :
                            Len(terms[j]) > 3 /\ Contains(industry_lower, terms[j])

\* a variant that also takes the word "regulated", as agent/outbound.py does
is_regulated_or_tagged(industry) ==
    IF ~Truthy(industry) THEN FALSE
    ELSE ContainsAny(Lower(Val(industry)), Append(REGULATED_INDUSTRIES, "regulated"))

is_regulated_industry(industry) ==
    IF ~Truthy(industry) THEN FALSE
    ELSE ContainsAny(Lower(Val(industry)), REGULATED_INDUSTRIES)

is_us_or_dubai(location) ==
    IF ~Truthy(location) THEN FALSE
    ELSE LET location_lower == Lower(Val(location))
             parts == SplitOn(location_lower, ",")
             state_part == Strip(parts[Len(parts)])
         IN  \/ Contains(location_lower, "dubai")
             \/ Contains(location_lower, "uae")
             \/ ContainsAny(location_lower, US_LOCATIONS)
             \/ /\ Contains(location_lower, ",")
                /\ Len(parts) >= 2
                /\ \E i \in 1..Len(US_LOCATIONS) : US_LOCATIONS[i] = state_part

is_small_agency(employees) ==
    IF employees = None THEN FALSE ELSE Val(employees) < 5

has_founder_led_signal(notes) == ContainsAny(notes, FOUNDER_LED_SIGNALS)

has_revenue_scale_signal(notes) == ContainsAny(notes, REVENUE_SCALE_SIGNALS)

\* a faulty variant that knows the word "burnout" alone
has_burnout_word(notes) == Contains(notes, "burnout")

has_burnout_signal(notes) == ContainsAny(notes, BURNOUT_SIGNALS)

has_early_stage_signal(l) ==
    LET notes == _notes_text(l)
        notes_match == ContainsAny(notes, EARLY_STAGE_SIGNALS)
        stage_lower == Lower(OrElse(l.stage, ""))
        stage_match == ContainsAny(stage_lower, STAGE_EARLY_SIGNALS)
    IN  notes_match \/ stage_match

has_lifestyle_signal(notes) == ContainsAny(notes, LIFESTYLE_SIGNALS)

has_strong_positive_signal(notes) == ContainsAny(notes, STRONG_POSITIVE_SIGNALS)

has_ops_keywords(notes) == ContainsAny(notes, OPS_KEYWORDS)

\* notes is lead.notes, an Optional[str]
has_negative_signal(notes) ==
    IF ~Truthy(notes) THEN FALSE
    ELSE ContainsAny(Lower(Val(notes)), NEGATIVE_SIGNALS)

\* a faulty variant that cites the last matching phrase of the lexicon
LastNegativeMatch(l) ==
    LET m == Matches(Lower(OrElse(l.notes, "")), NEGATIVE_SIGNALS)
    IN  IF m = << >> THEN "" ELSE m[Len(m)]

\* next((s for s in NEGATIVE_SIGNALS if s in (lead.notes or "").lower()), "")
FirstNegativeMatch(l) ==
    LET m == Matches(Lower(OrElse(l.notes, "")), NEGATIVE_SIGNALS)
    IN  IF m = << >> THEN "" ELSE m[1]

\* the deltas of score_lead, scoring.py:400-444
IndustryDelta == 30
LocationDelta == 20
FounderLedDelta == 25
RevenueScaleDelta == 20
BurnoutDelta == 20
StrongPositiveDelta == 15
OpsKeywordsDelta == 10
EarlyStageDelta == -20
SmallAgencyDelta == -15
RegulatedDelta == -10
LifestyleDelta == -15
NegativeDelta == -15

\* the cap of score_lead, scoring.py:449
MinScore == 0
MaxScore == 100

NoCriteriaReason == "No scoring criteria matched -- needs manual review"

\* a faulty variant that puts the newest reason first
ApplyInFront(acc, rule, delta, reason) ==
    IF rule THEN [score |-> acc.score + delta, reasons |-> << reason >> \o acc.reasons]
    ELSE acc

\* one `if rule: score += delta; reasons.append(reason)` of score_lead
Apply(acc, rule, delta, reason) ==
    IF rule THEN [score |-> acc.score + delta, reasons |-> Append(acc.reasons, reason)]
    ELSE acc

Max(a, b) == IF a >= b THEN a ELSE b
Min(a, b) == IF a <= b THEN a ELSE b

\* a faulty cap that forgets the upper limit
CapWithoutCeiling(score) == Max(MinScore, score)

\* a faulty variant that looks at the score before the negative signal
\* the phrases of every notes lexicon found in the joined text, scoring.py:338-350
get_matched_signals(l) ==
    LET notes == _notes_text(l)
    IN  [founder_led |-> Matches(notes, FOUNDER_LED_SIGNALS),
         revenue_scale |-> Matches(notes, REVENUE_SCALE_SIGNALS),
         burnout |-> Matches(notes, BURNOUT_SIGNALS),
         strong_positives |-> Matches(notes, STRONG_POSITIVE_SIGNALS),
         ops_keywords |-> Matches(notes, OPS_KEYWORDS),
         negatives |-> Matches(notes, NEGATIVE_SIGNALS),
         early_stage |-> Matches(notes, EARLY_STAGE_SIGNALS),
         lifestyle |-> Matches(notes, LIFESTYLE_SIGNALS)]

get_quality_label_score_first(score, has_neg) ==
    IF score >= 90 THEN "Hot Lead"
    ELSE IF has_neg
    THEN (IF score >= 65 THEN "Possible Fit -- Not Hiring Now" ELSE "Poor Fit")
    ELSE IF score >= 70 THEN "Strong Fit"
    ELSE IF score >= 50 THEN "Good Fit"
    ELSE IF score >= 30 THEN "Possible Fit"
    ELSE "Weak Fit"

get_quality_label(score, has_neg) ==
    IF has_neg
    THEN (IF score >= 65 THEN "Possible Fit -- Not Hiring Now" ELSE "Poor Fit")
    ELSE IF score >= 90 THEN "Hot Lead"
    ELSE IF score >= 70 THEN "Strong Fit"
    ELSE IF score >= 50 THEN "Good Fit"
    ELSE IF score >= 30 THEN "Possible Fit"
    ELSE "Weak Fit"

\* score = max(0.0, min(score, 100.0))
Cap(score) == Max(MinScore, Min(score, MaxScore))

\* str(employees) for a whole number
IntToStr(n) == ToString(n)

\* a faulty variant with `if` for the `elif`: both bonuses may be applied
ApplyStrongAndOps(acc, notes) ==
    Apply(Apply(acc, has_strong_positive_signal(notes), StrongPositiveDelta,
              "Notes show explicit operational need for Adina services (+15)"),
          has_ops_keywords(notes), OpsKeywordsDelta,
          "Notes reference operational activity and scaling context (+10)")

\* the if / elif of scoring.py:419-424: strong-positive, else ops keywords
ApplyStrongOrOps(acc, notes) ==
    IF has_strong_positive_signal(notes)
    THEN Apply(acc, TRUE, StrongPositiveDelta,
             "Notes show explicit operational need for Adina services (+15)")
    ELSE Apply(acc, has_ops_keywords(notes), OpsKeywordsDelta,
             "Notes reference operational activity and scaling context (+10)")

\* a faulty variant that hands over the combined notes + description text
NegativeSignalTextCombined(l) == Some(_notes_text(l))

\* the text score_lead hands to has_negative_signal: lead.notes alone
NegativeSignalText(l) == l.notes

\* a faulty variant without the fallback reason
OrNothing(reasons) == reasons

\* if not reasons: reasons.append("No scoring criteria matched ...")
OrNoCriteria(reasons) == IF reasons = << >> THEN << NoCriteriaReason >> ELSE reasons

score_lead(l) ==
    LET notes == _notes_text(l)
        s0 == [score |-> 0, reasons |-> << >>]
        s1 == Apply(s0, is_industry_match(l.industry), IndustryDelta,
                  "Industry '" \o OrElse(l.industry, "") \o "' is an Adina-served market (+30)")
        s2 == Apply(s1, is_us_or_dubai(l.location), LocationDelta,
                  "Location '" \o OrElse(l.location, "") \o "' is in our primary market (+20)")
        s3 == Apply(s2, has_founder_led_signal(notes), FounderLedDelta,
                  "Founder-led business showing signs of outpaced infrastructure (+25)")
        s4 == Apply(s3, has_revenue_scale_signal(notes), RevenueScaleDelta,
                  "Revenue signals indicate $10M+ scaling complexity (+20)")
        s5 == Apply(s4, has_burnout_signal(notes), BurnoutDelta,
                  "Founder burnout risk -- working 60+ hours/week (+20)")
        s6 == ApplyStrongOrOps(s5, notes)
        s7 == Apply(s6, has_early_stage_signal(l), EarlyStageDelta,
                  "Early-stage or pre-revenue -- not yet at Adina's target scale (-20)")
        s8 == Apply(s7, is_small_agency(l.employees), SmallAgencyDelta,
                  "Small team (" \o (IF l.employees = None THEN "None"
                                     ELSE IntToStr(Val(l.employees)))
                  \o " employees) -- below minimum scale threshold (-15)")
        s9 == Apply(s8, is_regulated_industry(l.industry), RegulatedDelta,
                  "Regulated industry ('" \o OrElse(l.industry, "")
                  \o "') adds complexity and longer sales cycles (-10)")
        s10 == Apply(s9, has_lifestyle_signal(notes), LifestyleDelta,
                  "Lifestyle or solo operation -- not aligned with Adina's growth-stage model (-15)")
        s11 == Apply(s10, has_negative_signal(NegativeSignalText(l)), NegativeDelta,
                  "Notes indicate current mismatch: '" \o FirstNegativeMatch(l) \o "' (-15)")
    IN  [tag |-> "ok", score |-> Cap(s11.score), reasons |-> OrNoCriteria(s11.reasons)]

-----------------------------------------------------------------------------
(* agent/responses.py: the reply intent classifier *)

_normalize_text(text) == Join(Split(Lower(text)), " ")

\* [k for k in keywords if k.lower() in text.lower()]
_count_keyword_matches(text, keywords) ==
    LET text_lower == Lower(text)
    IN  SelectSeq(keywords, LAMBDA keyword : Contains(text_lower, Lower(keyword)))

\* [p for p in patterns if p.lower() in _normalize_text(text)]
_count_pattern_matches(text, patterns) ==
    LET text_normalized == _normalize_text(text)
    IN  SelectSeq(patterns, LAMBDA pattern : Contains(text_normalized, Lower(pattern)))

\* one pass of the loop of responses.py:95-109 over (intent, config)
ScoreIntent(text, intent, config) ==
    LET matched_keywords == _count_keyword_matches(text, Get(config, "keywords", << >>))
        matched_patterns == _count_pattern_matches(text, Get(config, "patterns", << >>))
    IN  [intent |-> intent,
         score |-> Len(matched_keywords) + (Len(matched_patterns) * 2),
         matched_keywords |-> matched_keywords,
         matched_patterns |-> matched_patterns]

\* scores.get("negative", {}).get("score", 0)
NegativeScore(scores) ==
    IF \E i \in 1..Len(scores) : scores[i].intent = "negative"
    THEN scores[CHOOSE i \in 1..Len(scores) : scores[i].intent = "negative"].score
    ELSE 0

\* the threshold of the negative override, responses.py:113
NegativeOverrideAt == 2

\* a faulty override that needs one more negative point
IsStrongNegativeAbove(negative_score) == negative_score > NegativeOverrideAt

\* if negative_score >= 2
IsStrongNegative(negative_score) == negative_score >= NegativeOverrideAt

\* a faulty override that is always sure of itself
OverrideConfidenceHigh(negative_score) == "high"

\* the confidence of the override, responses.py:116
OverrideConfidence(negative_score) == IF negative_score >= 3 THEN "high" ELSE "medium"

\* a faulty comparison with >= for >: the last of tied intents wins
BeatsOrTies(score, best_score) == score >= best_score

\* if data["score"] > best_score
Beats(score, best_score) == score > best_score

\* the loop of responses.py:126-130 from the i-th entry of scores on
RECURSIVE FindBest(_, _, _)
FindBest(scores, i, best) ==
    IF i > Len(scores) THEN best
    ELSE FindBest(scores, i + 1,
                  IF Beats(scores[i].score, best.score) THEN scores[i] ELSE best)

\* faulty bands: "high" from 3 on
ConfidenceOfShifted(best_score) ==
    IF best_score = 0 THEN "low"
    ELSE IF best_score >= 3 THEN "high"
    ELSE IF best_score >= 2 THEN "medium"
    ELSE "low"

\* responses.py:133-140
ConfidenceOf(best_score) ==
    IF best_score = 0 THEN "low"
    ELSE IF best_score >= 4 THEN "high"
    ELSE IF best_score >= 2 THEN "medium"
    ELSE "low"

ClassificationResult(intent, confidence, matched_keywords, matched_patterns) ==
    [tag |-> "ok", intent |-> intent, confidence |-> confidence,
     matched_keywords |-> matched_keywords, matched_patterns |-> matched_patterns]

\* intent_classification is a dict in file order: a sequence of <<intent, config>>
classify_reply_detailed(text) ==
    IF RESPONSE_PLAYBOOK.type # "dict" THEN Raise("TypeError")
    ELSE IF "intent_classification" \notin DOMAIN RESPONSE_PLAYBOOK.items
    THEN Raise("KeyError")
    ELSE
    LET config == RESPONSE_PLAYBOOK.items.intent_classification
        scores == [i \in 1..Len(config) |-> ScoreIntent(text, config[i][1], config[i][2])]
        negative_score == NegativeScore(scores)
        negative == scores[CHOOSE i \in 1..Len(scores) : scores[i].intent = "negative"]
        best == FindBest(scores, 1,
                         [intent |-> "neutral", score |-> 0,
                          matched_keywords |-> << >>, matched_patterns |-> << >>])
    IN  IF IsStrongNegative(negative_score)
        THEN ClassificationResult("negative", OverrideConfidence(negative_score),
                                  negative.matched_keywords, negative.matched_patterns)
        ELSE ClassificationResult(best.intent, ConfidenceOf(best.score),
                                  best.matched_keywords, best.matched_patterns)

\* classify_reply: the intent alone
classify_reply(text) ==
    LET result == classify_reply_detailed(text)
    IN  IF result.tag = "ok" THEN result.intent ELSE result

-----------------------------------------------------------------------------
(* agent/responses.py: the follow-up drafting engine *)

PRICE_KEYWORDS == << "expensive", "cost", "price", "budget", "afford", "investment" >>
TIMING_KEYWORDS == << "busy", "later", "not now", "timing", "quarter", "month" >>
FIT_KEYWORDS ==
    << "not sure if", "right fit", "don't think", "not for us", "not what we need" >>

\* a faulty variant that looks for a fit objection first
_detect_objection_type_fit_first(text) ==
    LET text_lower == Lower(text)
    IN  IF ContainsAny(text_lower, FIT_KEYWORDS) THEN "fit"
        ELSE IF ContainsAny(text_lower, PRICE_KEYWORDS) THEN "price"
        ELSE IF ContainsAny(text_lower, TIMING_KEYWORDS) THEN "timing"
        ELSE "default"

_detect_objection_type(text) ==
    LET text_lower == Lower(text)
    IN  IF ContainsAny(text_lower, PRICE_KEYWORDS) THEN "price"
        ELSE IF ContainsAny(text_lower, TIMING_KEYWORDS) THEN "timing"
        ELSE IF ContainsAny(text_lower, FIT_KEYWORDS) THEN "fit"
        ELSE "default"

\* a faulty variant that looks for what the sender waits for before any date
_extract_timeframe_event_first(text) ==
    LET text_lower == Lower(text)
        has(p) == Contains(text_lower, p)
    IN  IF has("after") /\ (has("fundraise") \/ has("raise")) THEN "after your fundraise"
        ELSE IF has("after") /\ has("hire") THEN "after your hiring push"
        ELSE IF has("after") /\ has("launch") THEN "after your launch"
        ELSE IF has("next quarter") \/ has("q2") \/ has("q3") \/ has("q4") THEN "next quarter"
        ELSE IF has("next month") THEN "a month"
        ELSE IF has("next week") THEN "next week"
        ELSE IF has("few weeks") THEN "a few weeks"
        ELSE IF has("next year") \/ has("new year") THEN "the new year"
        ELSE IF has("january") THEN "January"
        ELSE "a few weeks"

_extract_timeframe(text) ==
    LET text_lower == Lower(text)
        has(p) == Contains(text_lower, p)
    IN  IF has("next quarter") \/ has("q2") \/ has("q3") \/ has("q4") THEN "next quarter"
        ELSE IF has("next month") THEN "a month"
        ELSE IF has("next week") THEN "next week"
        ELSE IF has("few weeks") THEN "a few weeks"
        ELSE IF has("next year") \/ has("new year") THEN "the new year"
        ELSE IF has("january") THEN "January"
        ELSE IF has("after") /\ (has("fundraise") \/ has("raise")) THEN "after your fundraise"
        ELSE IF has("after") /\ has("hire") THEN "after your hiring push"
        ELSE IF has("after") /\ has("launch") THEN "after your launch"
        ELSE "a few weeks"

\* the replacement of {followup_timeframe}, made for deferrals only
\* (responses.py:254-256)
ReplaceTimeframe(body, intent, text) ==
    IF intent = "deferral"
    THEN Replace(body, "{followup_timeframe}", _extract_timeframe(text))
    ELSE body

draft_followup_with_context(intent, l, text) ==
    IF RESPONSE_PLAYBOOK.type # "dict" THEN Raise("TypeError")
    ELSE IF "followup_templates" \notin DOMAIN RESPONSE_PLAYBOOK.items
    THEN Raise("KeyError")
    ELSE
    LET templates == RESPONSE_PLAYBOOK.items.followup_templates
    IN  \* templates.get(intent_label, templates["neutral"]) evaluates its default first
        IF "neutral" \notin DOMAIN templates THEN Raise("KeyError")
        ELSE
        LET template_config == Get(templates, intent, templates["neutral"])
            company == OrElse(l.company, "your company")
            objection_type == _detect_objection_type(text)
            objection_templates == Get(template_config, "templates_by_objection", EmptyDict)
            template ==
                IF intent = "objection"
                THEN Get(objection_templates, objection_type,
                         Get(objection_templates, "default", ""))
                ELSE Get(template_config, "template", "")
            b1 == Replace(template, "{company}", company)
            b2 == Replace(b1, "{suggested_time}", "sometime this week")
            b3 == ReplaceTimeframe(b2, intent, text)
            b4 == Replace(b3, "{answer_to_question}",
                          "[Your specific question addressed here]")
        IN  [tag |-> "ok", body |-> b4, intent |-> intent]

-----------------------------------------------------------------------------
(* agent/outbound.py: the outreach drafting engine *)

\* the industry -> problems/services map in insertion order, as <<key, entry>> pairs
INDUSTRY_RELEVANCE ==
    << << "real estate",
          [problems |->
               << "Executive leadership becoming operational bottlenecks",
                  "Teams operating with guesswork due to lack of documented processes",
                  "Inability to delegate effectively due to missing infrastructure" >>,
           services |->
               << "Operating System Audit & Priority Roadmap",
                  "System Design, Documentation & Implementation (SOPs, workflows, templates)",
                  "Management Structure with Defined Roles and Ownership" >>] >>,
       << "beauty",
          [problems |->
               << "Growth stalling because execution fails under complexity",
                  "Systems that never materialize because leadership lacks capacity to build them",
                  "Founder burnout from 60+ hour weeks" >>,
           services |->
               << "Capacity Planning & Leadership Bandwidth Optimization",
                  "Team Workflows, Change Management, Onboarding & Training",
                  "Performance Measurement & Accountability Systems (KPIs, dashboards)" >>] >>,
       << "travel",
          [problems |->
               << "Inconsistent execution across the organization",
                  "Teams operating with guesswork due to lack of documented processes",
                  "Executive leadership becoming operational bottlenecks" >>,
           services |->
               << "System Design, Documentation & Implementation (SOPs, workflows, templates)",
                  "Team Workflows, Change Management, Onboarding & Training",
                  "Future Roadmap & Growth Planning" >>] >>,
       << "wellness",
          [problems |->
               << "Founder burnout from 60+ hour weeks",
                  "Growth stalling because execution fails under complexity",
                  "Inability to delegate effectively due to missing infrastructure" >>,
           services |->
               << "6-Month Operational Co-Founder Partnership: Full operational audit, system design, documentation, implementation, and transfer",
                  "Capacity Planning & Leadership Bandwidth Optimization",
                  "Management Structure with Defined Roles and Ownership" >>] >>,
       << "wellness & fitness",
          [problems |->
               << "Founder burnout from 60+ hour weeks",
                  "Growth stalling because execution fails under complexity",
                  "Inability to delegate effectively due to missing infrastructure" >>,
           services |->
               << "6-Month Operational Co-Founder Partnership: Full operational audit, system design, documentation, implementation, and transfer",
                  "Capacity Planning & Leadership Bandwidth Optimization",
                  "Management Structure with Defined Roles and Ownership" >>] >>,
       << "healthcare",
          [problems |->
               << "Inconsistent execution across the organization",
                  "Systems that never materialize because leadership lacks capacity to build them",
                  "Executive leadership becoming operational bottlenecks" >>,
           services |->
               << "System Design, Documentation & Implementation (SOPs, workflows, templates)",
                  "Performance Measurement & Accountability Systems (KPIs, dashboards)",
                  "Team Workflows, Change Management, Onboarding & Training" >>] >>,
       << "media",
          [problems |->
               << "Founder burnout from 60+ hour weeks",
                  "Teams operating with guesswork due to lack of documented processes",
                  "Inability to delegate effectively due to missing infrastructure" >>,
           services |->
               << "Capacity Planning & Leadership Bandwidth Optimization",
                  "System Design, Documentation & Implementation (SOPs, workflows, templates)",
                  "Management Structure with Defined Roles and Ownership" >>] >> >>

DEFAULT_RELEVANCE ==
    [problems |->
         << "Executive leadership becoming operational bottlenecks",
            "Growth stalling because execution fails under complexity",
            "Systems that never materialize because leadership lacks capacity to build them" >>,
     services |->
         << "Operating System Audit & Priority Roadmap",
            "System Design, Documentation & Implementation (SOPs, workflows, templates)",
            "Capacity Planning & Leadership Bandwidth Optimization" >>]

get_industry_relevance(industry) ==
    LET industry_lower == Strip(Lower(industry))
        keys == [i \in 1..Len(INDUSTRY_RELEVANCE) |-> INDUSTRY_RELEVANCE[i][1]]
        exact == { i \in 1..Len(keys) : keys[i] = industry_lower }
        partial == { i \in 1..Len(keys) :
                         Contains(industry_lower, keys[i]) \/ Contains(keys[i], industry_lower) }
        first(S) == CHOOSE i \in S : \A j \in S : i <= j
    IN  IF exact # {} THEN INDUSTRY_RELEVANCE[first(exact)][2]
        ELSE IF partial # {} THEN INDUSTRY_RELEVANCE[first(partial)][2]
        ELSE DEFAULT_RELEVANCE

\* industry is a str here: draft_outreach_email passes lead.industry or "your industry"
_is_industry_served(industry) ==
    IF industry = "" THEN FALSE
    ELSE LET industry_lower == Lower(industry)
             served == Get(KNOWLEDGE_PACK.items, "industries_served", << >>)
         IN  \E i \in 1..Len(served) :
                 \/ Contains(Lower(served[i]), industry_lower)
                 \/ Contains(industry_lower, Lower(served[i]))

OUTBOUND_REGULATED == << "healthcare", "real estate", "regulated" >>

_is_regulated_industry(industry) ==
    IF industry = "" THEN FALSE
    ELSE ContainsAny(Lower(industry), OUTBOUND_REGULATED)

\* the first proof point that mentions the industry, or None
_get_industry_proof_point(industry) ==
    LET industry_lower == Lower(industry)
        proofs == Get(KNOWLEDGE_PACK.items, "proof_points", << >>)
        hits == SelectSeq(proofs, LAMBDA proof : Contains(Lower(proof), industry_lower))
    IN  IF hits = << >> THEN None ELSE Some(hits[1])

INDUSTRY_QUESTION == "How do we know it will work for our industry?"
CONSULTANTS_QUESTION == "We've tried consultants before"

\* full.split(".")[0].strip(), then first_sentence + "." if first_sentence else None
FirstSentence(full) ==
    LET first_sentence == Strip(SplitOn(full, ".")[1])
    IN  IF first_sentence # "" THEN Some(first_sentence \o ".") ELSE None

\* a faulty variant that looks at the notes before the industry
_get_contextual_rebuttal_notes_first(l) ==
    LET rebuttals == Get(KNOWLEDGE_PACK.items, "objections_and_rebuttals", EmptyDict)
        industry == OrElse(l.industry, "")
        notes_lower == Lower(OrElse(l.notes, ""))
        industry_full == Get(rebuttals, INDUSTRY_QUESTION, "")
        consultants_full == Get(rebuttals, CONSULTANTS_QUESTION, "")
    IN  IF /\ \/ Contains(notes_lower, "consultant")
              \/ Contains(notes_lower, "fractional coo")
              \/ Contains(notes_lower, "fractional co")
           /\ consultants_full # ""
        THEN FirstSentence(consultants_full)
        ELSE IF _is_regulated_industry(industry) /\ industry_full # ""
        THEN FirstSentence(industry_full)
        ELSE None

_get_contextual_rebuttal(l) ==
    LET rebuttals == Get(KNOWLEDGE_PACK.items, "objections_and_rebuttals", EmptyDict)
        industry == OrElse(l.industry, "")
        notes_lower == Lower(OrElse(l.notes, ""))
        industry_full == Get(rebuttals, INDUSTRY_QUESTION, "")
        consultants_full == Get(rebuttals, CONSULTANTS_QUESTION, "")
    IN  IF _is_regulated_industry(industry) /\ industry_full # ""
        THEN FirstSentence(industry_full)
        ELSE IF /\ \/ Contains(notes_lower, "consultant")
                   \/ Contains(notes_lower, "fractional coo")
                   \/ Contains(notes_lower, "fractional co")
                /\ consultants_full # ""
        THEN FirstSentence(consultants_full)
        ELSE None

format_stage(stage) == IF ~Truthy(stage) THEN "" ELSE Val(stage)

\* an f-string's rendering of an Optional[str]
Str(o) == IF o = None THEN "None" ELSE Val(o)

\* str.rstrip(".")
RECURSIVE RStripDots(_)
RStripDots(s) ==
    IF Len(s) > 0 /\ SubSeq(s, Len(s), Len(s)) = "."
    THEN RStripDots(SubSeq(s, 1, Len(s) - 1)) ELSE s

BURNOUT_HOOK ==
    "At this stage, founders often find themselves working 60+ hour weeks "
    \o "while their teams lack the systems to execute consistently."

BOTTLENECK_HOOK ==
    "At this stage, leadership often becomes the bottleneck--every decision "
    \o "runs through you because the systems don't exist for your team to own execution."

GENERIC_HOOK ==
    "At this stage, growth often stalls because execution breaks down under "
    \o "complexity--teams operate with guesswork, and critical systems never get built."

VALUE_PROPOSITION ==
    "ADINA works alongside founders as an operational co-founder. We design, build, "
    \o "and transfer the operating systems your team needs--SOPs, workflows, accountability "
    \o "structures--so you can scale without burning out."

\* the lines added for a rebuttal, outbound.py:277-279
RebuttalLines(rebuttal) == IF Truthy(rebuttal) THEN << Val(rebuttal), "" >> ELSE << >>

\* a faulty variant that adds the proof point next to a rebuttal
ProofLinesBesideRebuttal(industry, is_served, rebuttal) ==
    IF is_served
    THEN LET proof == _get_industry_proof_point(industry)
         IN  IF Truthy(proof)
             THEN LET highlight == RStripDots(Strip(SplitOn(Val(proof), ";")[1]))
                  IN  IF highlight # ""
                      THEN << "We've seen this work in " \o industry \o ": "
                              \o highlight \o ".", "" >>
                      ELSE << >>
             ELSE << >>
    ELSE << >>

\* the lines added for a proof point, outbound.py:282-288
ProofLines(industry, is_served, rebuttal) ==
    IF is_served /\ ~Truthy(rebuttal)
    THEN LET proof == _get_industry_proof_point(industry)
         IN  IF Truthy(proof)
             THEN LET highlight == RStripDots(Strip(SplitOn(Val(proof), ";")[1]))
                  IN  IF highlight # ""
                      THEN << "We've seen this work in " \o industry \o ": "
                              \o highlight \o ".", "" >>
                      ELSE << >>
             ELSE << >>
    ELSE << >>

draft_outreach_email(l) ==
    LET company == Str(l.company)
        industry == OrElse(l.industry, "your industry")
        location == l.location
        stage == format_stage(l.stage)
        relevance == get_industry_relevance(industry)
        primary_problem == relevance.problems[1]
        subject ==
            IF stage # ""
            THEN company \o " + ADINA: Operational support for " \o stage \o " growth"
            ELSE company \o " + ADINA: Building systems that scale"
        location_mention == IF Truthy(location) THEN " based in " \o Val(location) ELSE ""
        is_served == _is_industry_served(industry)
        opening ==
            << "Hi,", "",
               "I came across " \o company \o location_mention
               \o " and noticed you're scaling in " \o industry \o ".",
               "" >>
        hook ==
            IF Contains(Lower(primary_problem), "burnout") THEN << BURNOUT_HOOK >>
            ELSE IF Contains(Lower(primary_problem), "bottleneck") THEN << BOTTLENECK_HOOK >>
            ELSE << GENERIC_HOOK >>
        rebuttal == _get_contextual_rebuttal(l)
        closing ==
            << "Would a 15-minute call make sense to see if there's a fit?", "",
               "Best,", "Ify", "ADINA & Co." >>
        body_lines ==
            opening \o hook \o << "", VALUE_PROPOSITION, "" >> \o RebuttalLines(rebuttal)
            \o ProofLines(industry, is_served, rebuttal) \o closing
    IN  [tag |-> "ok", subject |-> subject, body |-> Join(body_lines, "\n")]

-----------------------------------------------------------------------------
(* models.py: the tables; main.py: the requests that work on them *)

\* at most this many requests arrive
MaxRequests == 2

\* a request slot no request has taken
Idle == [op |-> "idle"]

\* a request whose handler has returned or raised
Done(op, response) == [op |-> op, pc |-> "done", response |-> response]

HTTPException(status_code) == [status_code |-> status_code]

\* a row of table leads with the column defaults of models.py:7-35
LeadRow(l, status, contact_email, email_subject, email_body) ==
    [company |-> l.company, industry |-> l.industry, location |-> l.location,
     employees |-> l.employees, stage |-> l.stage, notes |-> l.notes,
     company_description |-> l.company_description,
     score |-> 0, score_reason |-> None,
     contact_email |-> contact_email, email_subject |-> email_subject,
     email_body |-> email_body, status |-> status]

\* a variant that resets the status of a lead that falls short
StatusAfterScoringOrNew(status, score) == IF score >= 70 THEN "qualified" ELSE "new"

\* if result["score"] >= 70: lead.status = "qualified"
StatusAfterScoring(status, score) == IF score >= 70 THEN "qualified" ELSE status

\* POST /api/leads/{lead_id}/score
score_lead_endpoint(r, lead_id) ==
    /\ process = "running"
    /\ requests[r] = Idle
    /\ IF lead_id \notin DOMAIN db_leads
       THEN /\ requests' = [requests EXCEPT ![r] =
                                Done("score_lead_endpoint", HTTPException(404))]
            /\ UNCHANGED db_leads
       ELSE LET row == db_leads[lead_id]
                result == score_lead(row)
                scored == [row EXCEPT !.score = result.score,
                                      !.score_reason = Some(Join(result.reasons, "; ")),
                                      !.status = StatusAfterScoring(@, result.score)]
            IN  /\ db_leads' = [db_leads EXCEPT ![lead_id] = scored]
                /\ requests' = [requests EXCEPT ![r] =
                                    Done("score_lead_endpoint",
                                         [lead_id |-> lead_id, score |-> scored.score,
                                          reasons |-> result.reasons,
                                          status |-> scored.status])]
    /\ UNCHANGED << sent_emails, daily_email_counts, mailbox, configVars, engineVars,
                    process >>

-----------------------------------------------------------------------------
(* main.py: the daily counter and the database session of a request *)

\* main.py:1978
DAILY_SEND_LIMIT == 100

\* get_daily_email_count(db): today's row of daily_email_counts, or 0
get_daily_email_count == IF daily_email_counts = None THEN 0 ELSE Val(daily_email_counts)

\* A session as get_db opens it: count_record is today's DailyEmailCount
\* object once a query has loaded it (its count as held in memory, which a
\* later query of the same session does not refresh), count_dirty says the
\* object was modified, new_counts counts the DailyEmailCount objects added
\* and not flushed, new_sent are the SentEmail objects added, lead_writes
\* the modified Lead attributes as << id, column, value >>, leads_expired
\* says a commit has expired the Lead objects and none was read since.
Session(count_record) ==
    [count_record |-> count_record, count_dirty |-> FALSE, new_counts |-> 0,
     new_sent |-> << >>, lead_writes |-> << >>, leads_expired |-> FALSE]

\* the session once db.commit() has expired every object it holds and the
\* handler has read its lead again
Expired == Session(None)

\* the session once gmail_service.get_credentials has refreshed the access
\* token and committed (gmail_service.py:109-116): every object is expired
TokenRefreshed == [Session(None) EXCEPT !.leads_expired = TRUE]

\* increment_daily_email_count(db): the query returns the object the session
\* holds, else the committed row, else nothing (autoflush is off: an added
\* object is not found) and a new object with count 1 is added
increment_daily_email_count(s) ==
    IF s.count_record # None
    THEN [s EXCEPT !.count_record = Some(Val(@) + 1), !.count_dirty = TRUE]
    ELSE IF daily_email_counts # None
    THEN [s EXCEPT !.count_record = Some(Val(daily_email_counts) + 1),
                   !.count_dirty = TRUE]
    ELSE [s EXCEPT !.new_counts = @ + 1]

\* lead.column = value: an UPDATE is due when the value differs from the
\* loaded one, or when the object is expired
SetAttr(s, lead_id, row, column, value) ==
    IF ~s.leads_expired /\ row[column] = value THEN s
    ELSE [s EXCEPT !.lead_writes = Append(@, << lead_id, column, value >>)]

\* db.add(SentEmail(lead_id, to_email, subject, body, sent_date=date.today()))
AddSentEmail(s, lead_id, message) ==
    [s EXCEPT !.new_sent =
         Append(@, [lead_id |-> lead_id, to_email |-> message.to,
                    subject |-> message.subject, body |-> message.body])]

RECURSIVE ApplyWrites(_, _)
ApplyWrites(leads, writes) ==
    IF writes = << >> THEN leads
    ELSE LET w == Head(writes)
         IN  ApplyWrites([leads EXCEPT ![w[1]][w[2]] = w[3]], Tail(writes))

RECURSIVE BagOfSeq(_)
BagOfSeq(seq) ==
    IF seq = << >> THEN EmptyBag ELSE SetToBag({ Head(seq) }) (+) BagOfSeq(Tail(seq))

\* daily_email_counts.date is unique: a second row for today is refused
IntegrityError(s) ==
    \/ s.new_counts >= 2
    \/ s.new_counts = 1 /\ daily_email_counts # None

\* db.commit(): every change of the session reaches the tables, or none does
Commit(s) ==
    /\ ~IntegrityError(s)
    /\ daily_email_counts' =
           (IF s.new_counts = 1 THEN Some(1)
            ELSE IF s.count_dirty THEN s.count_record
            ELSE daily_email_counts)
    /\ sent_emails' = sent_emails (+) BagOfSeq(s.new_sent)
    /\ db_leads' = ApplyWrites(db_leads, s.lead_writes)

\* the message create_message builds; lead_id is not part of it and only
\* tells the mailbox's messages apart by the lead they were written for
Message(lead_id, to, subject, body) ==
    [lead_id |-> lead_id, to |-> to, subject |-> subject, body |-> body]

\* a handler about to call the mail provider for the lead at position `at`
\* of the leads it loaded
Sending(op, lead_ids, rows, at, message, s) ==
    [op |-> op, pc |-> "send", lead_ids |-> lead_ids, rows |-> rows, at |-> at,
     message |-> message, session |-> s, result |-> "none", sent |-> 0]

\* what the handler does with a successful result: lead.status = "sent", the
\* SentEmail row, the counter (main.py:1697-1709, :2249-2267, :2582-2597)
RecordSent(req) ==
    LET lead_id == req.lead_ids[req.at]
        row == req.rows[req.at]
        s1 == SetAttr(req.session, lead_id, row, "status", "sent")
        s2 == AddSentEmail(s1, lead_id, req.message)
    IN  increment_daily_email_count(s2)

\* a variant that records a send whatever the provider reported
RecordResultAlways(req) == RecordSent(req)

\* if result["success"]: ... ; a failed send leaves the session as it was
RecordResult(req) == IF req.result = "success" THEN RecordSent(req) ELSE req.session

\* the handler returns, or raises before any write
Respond(r, op, response) ==
    /\ requests' = [requests EXCEPT ![r] = Done(op, response)]
    /\ UNCHANGED dbVars

\* the handler's last db.commit() and its response; an IntegrityError escapes
\* as a 500 and the session is rolled back when get_db closes it
CommitAndRespond(r, op, s, response) ==
    IF IntegrityError(s)
    THEN Respond(r, op, HTTPException(500))
    ELSE /\ Commit(s)
         /\ requests' = [requests EXCEPT ![r] = Done(op, response)]

GmailSendResponse(success, error) == [success |-> success, error |-> error]

HasDraft(row) == Truthy(row.email_subject) /\ Truthy(row.email_body)

MessageTo(lead_id, row) ==
    Message(lead_id, Val(row.contact_email), Val(row.email_subject), Val(row.email_body))

-----------------------------------------------------------------------------
(* main.py: the handlers that send email. `connected` is what                *)
(* _is_gmail_connected / gmail.is_connected() answers; settings.demo_mode is *)
(* off.                                                                      *)

\* POST /api/leads/{lead_id}/approve, up to the call of the provider
approve_lead_start(r, lead_id, connected) ==
    /\ requests[r] = Idle
    /\ IF lead_id \notin DOMAIN db_leads
       THEN Respond(r, "approve_lead", HTTPException(404))
       ELSE LET row == db_leads[lead_id]
            IN  IF ~HasDraft(row) \/ ~Truthy(row.contact_email)
                THEN Respond(r, "approve_lead",
                             GmailSendResponse(FALSE, "No saved draft found"))
                ELSE IF ~connected
                THEN Respond(r, "approve_lead",
                             GmailSendResponse(FALSE, "Gmail not connected"))
                ELSE IF get_daily_email_count >= DAILY_SEND_LIMIT
                THEN Respond(r, "approve_lead",
                             GmailSendResponse(FALSE, "Daily send limit reached"))
                ELSE /\ requests' =
                            [requests EXCEPT ![r] =
                                 Sending("approve_lead", << lead_id >>, << row >>, 1,
                                         MessageTo(lead_id, row),
                                         Session(daily_email_counts))]
                     /\ UNCHANGED dbVars
    /\ UNCHANGED mailbox

\* POST /api/gmail/send/{lead_id}, up to the call of the provider
send_email_to_lead_start(r, lead_id, connected) ==
    /\ requests[r] = Idle
    /\ IF ~connected
       THEN Respond(r, "send_email_to_lead",
                    GmailSendResponse(FALSE, "Gmail not connected"))
       ELSE IF get_daily_email_count >= DAILY_SEND_LIMIT
       THEN Respond(r, "send_email_to_lead",
                    GmailSendResponse(FALSE, "Daily send limit reached"))
       ELSE IF lead_id \notin DOMAIN db_leads
       THEN Respond(r, "send_email_to_lead", HTTPException(404))
       ELSE LET row == db_leads[lead_id]
            IN  IF row.status # "approved"
                THEN Respond(r, "send_email_to_lead",
                             GmailSendResponse(FALSE, "Lead status must be 'approved'"))
                ELSE IF ~Truthy(row.contact_email)
                THEN Respond(r, "send_email_to_lead",
                             GmailSendResponse(FALSE, "Lead has no contact_email"))
                ELSE IF ~HasDraft(row)
                THEN Respond(r, "send_email_to_lead",
                             GmailSendResponse(FALSE, "Lead has no drafted email"))
                ELSE /\ requests' =
                            [requests EXCEPT ![r] =
                                 Sending("send_email_to_lead", << lead_id >>, << row >>, 1,
                                         MessageTo(lead_id, row),
                                         Session(daily_email_counts))]
                     /\ UNCHANGED dbVars
    /\ UNCHANGED mailbox

\* POST /api/gmail/send_reply, up to the call of the provider
send_reply_email_start(r, send_request, connected) ==
    /\ requests[r] = Idle
    /\ IF ~connected
       THEN Respond(r, "send_reply_email",
                    GmailSendResponse(FALSE, "Gmail not connected"))
       ELSE IF get_daily_email_count >= DAILY_SEND_LIMIT
       THEN Respond(r, "send_reply_email",
                    GmailSendResponse(FALSE, "Daily send limit reached"))
       ELSE IF send_request.lead_id \notin DOMAIN db_leads
       THEN Respond(r, "send_reply_email", HTTPException(404))
       ELSE /\ requests' =
                   [requests EXCEPT ![r] =
                        Sending("send_reply_email", << send_request.lead_id >>,
                                << db_leads[send_request.lead_id] >>, 1,
                                Message(send_request.lead_id, send_request.to_email,
                                        send_request.subject, send_request.body),
                                Session(daily_email_counts))]
            /\ UNCHANGED dbVars
    /\ UNCHANGED mailbox

\* a variant that writes a fresh draft over the one the lead has
WithDraftAlways(row) ==
    LET generated == draft_outreach_email(row)
    IN  [row EXCEPT !.email_subject = Some(generated.subject),
                    !.email_body = Some(generated.body)]

\* 5. Generate draft if not present
WithDraft(row) ==
    IF HasDraft(row) THEN row
    ELSE LET generated == draft_outreach_email(row)
         IN  [row EXCEPT !.email_subject = Some(generated.subject),
                         !.email_body = Some(generated.body)]

WorkflowSendResponse(status, row) ==
    [status |-> status, subject |-> row.email_subject, body |-> row.email_body]

\* POST /api/workflow/approve_and_send/{lead_id}, up to the call of the
\* provider: the draft and the status "approved" are committed on the way
approve_and_send_lead_start(r, lead_id, dry_run, connected) ==
    /\ requests[r] = Idle
    /\ IF ~dry_run /\ ~connected
       THEN Respond(r, "approve_and_send_lead", [status |-> "error"])
       ELSE IF ~dry_run /\ get_daily_email_count >= DAILY_SEND_LIMIT
       THEN Respond(r, "approve_and_send_lead", [status |-> "error"])
       ELSE IF lead_id \notin DOMAIN db_leads
       THEN Respond(r, "approve_and_send_lead", HTTPException(404))
       ELSE LET row == db_leads[lead_id]
                drafted == WithDraft(row)
                approved == [drafted EXCEPT !.status = "approved"]
            IN  IF ~dry_run /\ ~Truthy(row.contact_email)
                THEN Respond(r, "approve_and_send_lead", [status |-> "error"])
                ELSE IF dry_run
                THEN /\ db_leads' = [db_leads EXCEPT ![lead_id] = drafted]
                     /\ requests' =
                            [requests EXCEPT ![r] =
                                 Done("approve_and_send_lead",
                                      WorkflowSendResponse("dry_run", drafted))]
                     /\ UNCHANGED << sent_emails, daily_email_counts >>
                ELSE /\ db_leads' = [db_leads EXCEPT ![lead_id] = approved]
                     /\ requests' =
                            [requests EXCEPT ![r] =
                                 Sending("approve_and_send_lead", << lead_id >>,
                                         << approved >>, 1, MessageTo(lead_id, approved),
                                         Expired)]
                     /\ UNCHANGED << sent_emails, daily_email_counts >>
    /\ UNCHANGED mailbox

\* the handlers that send through _send_email_for_user (main.py:201-213),
\* which may use the database-backed service and its token refresh
UserSendOps == { "approve_lead", "send_email_to_lead", "send_reply_email" }

\* gmail.send_email / gmail_service.send_email: the provider accepts the
\* message, or reports a failure (gmail.py:266-306, gmail_service.py:267-287)
send_email(r) ==
    /\ requests[r].op # "idle"
    /\ requests[r].pc = "send"
    /\ \E success \in BOOLEAN, refreshed \in BOOLEAN :
           /\ refreshed => requests[r].op \in UserSendOps
           /\ requests' = [requests EXCEPT ![r].pc = "record",
                                           ![r].result = IF success THEN "success"
                                                         ELSE "failure",
                                           ![r].session = IF refreshed THEN TokenRefreshed
                                                          ELSE @]
           /\ mailbox' = IF success THEN mailbox (+) SetToBag({ requests[r].message })
                         ELSE mailbox
    /\ UNCHANGED dbVars

\* approve_lead, send_email_to_lead and approve_and_send_lead after the
\* provider's answer (main.py:1697-1716, :2249-2279, :2585-2613)
send_recorded(r) ==
    LET req == requests[r]
    IN  /\ req.op \in { "approve_lead", "send_email_to_lead", "approve_and_send_lead" }
        /\ req.pc = "record"
        /\ CommitAndRespond(r, req.op, RecordResult(req),
                            IF req.op = "approve_and_send_lead"
                            THEN [status |-> IF req.result = "success" THEN "sent"
                                             ELSE "approved"]
                            ELSE GmailSendResponse(req.result = "success", req.result))
        /\ UNCHANGED mailbox

\* send_reply_email after the provider's answer (main.py:2445-2468): a
\* successful send also stores the recipient as the lead's contact_email
send_reply_recorded(r) ==
    LET req == requests[r]
        lead_id == req.lead_ids[1]
        s == IF req.result = "success"
             THEN SetAttr(RecordResult(req), lead_id, req.rows[1], "contact_email",
                          Some(req.message.to))
             ELSE RecordResult(req)
    IN  /\ req.op = "send_reply_email"
        /\ req.pc = "record"
        /\ CommitAndRespond(r, req.op, s,
                            GmailSendResponse(req.result = "success", req.result))
        /\ UNCHANGED mailbox

\* the lead has what the loop of send_batch_emails asks for (main.py:2356-2366)
Sendable(row) == Truthy(row.contact_email) /\ HasDraft(row)

\* the position, from `from` on, of the next lead the loop sends to; one past
\* the end when every remaining lead is skipped
RECURSIVE NextSendable(_, _)
NextSendable(rows, from) ==
    IF from > Len(rows) \/ Sendable(rows[from]) THEN from
    ELSE NextSendable(rows, from + 1)

\* the sequences a query with LIMIT lim may return for the matching ids: in
\* the order of ORDER BY created_at when ordered, else any lim of them in
\* any order
RECURSIVE Ascending(_)
Ascending(ids) ==
    IF ids = {} THEN << >>
    ELSE LET least == CHOOSE i \in ids : \A j \in ids : i <= j
         IN  << least >> \o Ascending(ids \ { least })

QueryResults(ids, lim, ordered) ==
    LET n == Min(lim, Cardinality(ids))
    IN  IF ordered THEN { SubSeq(Ascending(ids), 1, n) }
        ELSE { seq \in [1..n -> ids] : \A i, j \in 1..n : i # j => seq[i] # seq[j] }

BatchSendResponse(sent, error) == [sent |-> sent, error |-> error]

\* the loop of send_batch_emails from position `from` on: the next call of
\* the provider, or the db.commit() after the loop
batch_continue(r, req, from) ==
    LET at == NextSendable(req.rows, from)
    IN  IF at <= Len(req.rows)
        THEN /\ requests' = [requests EXCEPT ![r] =
                                 [req EXCEPT !.pc = "send", !.at = at, !.result = "none",
                                             !.message = MessageTo(req.lead_ids[at],
                                                                   req.rows[at])]]
             /\ UNCHANGED dbVars
        ELSE CommitAndRespond(r, req.op, req.session, BatchSendResponse(req.sent, "none"))

NoMessage == Message(0, "", "", "")

\* POST /api/gmail/send_batch, up to the first call of the provider; `leads`
\* is what the query for the approved leads returned
send_batch_emails_start(r, request, connected, leads) ==
    LET limit == Min(IF request.limit = None \/ request.limit = Some(0) THEN 25
                     ELSE Val(request.limit), 100)
        daily_count == get_daily_email_count
        remaining_quota == Max(0, DAILY_SEND_LIMIT - daily_count)
        matching == { id \in DOMAIN db_leads :
                          /\ db_leads[id].status = "approved"
                          /\ request.lead_ids # None => id \in Val(request.lead_ids) }
    IN  /\ requests[r] = Idle
        /\ IF ~connected
           THEN /\ leads = << >>
                /\ Respond(r, "send_batch_emails",
                           BatchSendResponse(0, "Gmail not connected"))
           ELSE IF remaining_quota = 0
           THEN /\ leads = << >>
                /\ Respond(r, "send_batch_emails",
                           BatchSendResponse(0, "Daily send limit reached"))
           ELSE /\ leads \in QueryResults(matching, Min(limit, remaining_quota),
                                          request.lead_ids = None)
                /\ batch_continue(r,
                                  [op |-> "send_batch_emails", pc |-> "send",
                                   lead_ids |-> leads,
                                   rows |-> [i \in 1..Len(leads) |-> db_leads[leads[i]]],
                                   at |-> 1, message |-> NoMessage,
                                   session |-> Session(daily_email_counts),
                                   result |-> "none", sent |-> 0],
                                  1)
        /\ UNCHANGED mailbox

\* send_batch_emails after the provider's answer (main.py:2375-2396): the row,
\* the counter and the status are added to the session; the commit comes
\* after the last lead
send_batch_recorded(r) ==
    LET req == requests[r]
    IN  /\ req.op = "send_batch_emails"
        /\ req.pc = "record"
        /\ batch_continue(r,
                          [req EXCEPT !.session = RecordResult(req),
                                      !.sent = IF req.result = "success" THEN @ + 1 ELSE @],
                          req.at + 1)
        /\ UNCHANGED mailbox

-----------------------------------------------------------------------------
(* The inputs: configuration files and requests *)

\* a knowledge pack as the spec describes its shape (the deployment's file is
\* not part of the sources); the industries are keys of outbound.py's
\* INDUSTRY_RELEVANCE
SampleKnowledgePack ==
    Dict([industries_served |-> << "Real Estate", "Beauty", "Wellness & Fitness" >>,
          proof_points |->
              << "Beauty brand: founder hours cut from 70 to 45; 30 SOPs documented.",
                 "Real estate brokerage doubled closings without new hires" >>,
          objections_and_rebuttals |->
              (INDUSTRY_QUESTION :>
                   "Our systems adapt to your compliance needs. We have done it before.")
              @@ (CONSULTANTS_QUESTION :>
                   "We build alongside your team. No slide decks.")])

KnowledgePackFiles ==
    { Absent, Unreadable, Unparseable, OtherError,
      Parsed(Dict(EmptyDict)), Parsed(SampleKnowledgePack), Parsed(NotADict("list")) }

\* employees counts up to this bound are tried
MaxEmployees == 5

NoLead ==
    [company |-> None, industry |-> None, location |-> None, employees |-> None,
     stage |-> None, notes |-> None, company_description |-> None]

ScoreNotes ==
    { None,
      Some("Founder is the bottleneck and team is burned out, 70 hours a week"),
      Some("Eight-figure scale-up, needs ops"),
      Some("Growing team"),
      Some("Pre-revenue solopreneur. Not a fit"),
      Some("Downsizing, no immediate need"),
      Some("Founder-led, $10M+, burnout, urgent need") }

ScoreDescriptions ==
    { None, Some("Owner-operated lifestyle brand"), Some("Restructuring") }

ScoreIndustries ==
    { Some("Real Estate"), Some("Fitness Studios"), Some("Regulated Fintech") }

ScoreLocations == { Some("Austin, Texas"), Some("Lyon") }

ScoreEmployees == { None } \cup { Some(n) : n \in 4..MaxEmployees }

ScoreStages == { Some("Series A"), Some("Idea") }

ScoreLeads ==
    { [company |-> Some("Acme"), industry |-> i, location |-> loc, employees |-> e,
       stage |-> st, notes |-> n, company_description |-> d] :
          i \in ScoreIndustries, loc \in ScoreLocations, e \in ScoreEmployees,
          st \in ScoreStages, n \in ScoreNotes, d \in ScoreDescriptions }
    \cup { NoLead }

\* a response playbook as the spec describes its shape (the deployment's file
\* is not part of the sources)
SampleClassification ==
    << << "positive", [keywords |-> << "interested", "sounds good", "yes", "call" >>,
                       patterns |-> << "let's schedule" >>] >>,
       << "neutral", [keywords |-> << "how", "what", "question" >>,
                      patterns |-> << "can you tell me" >>] >>,
       << "objection", [keywords |-> << "expensive", "budget", "not sure" >>,
                        patterns |-> << "too expensive" >>] >>,
       << "deferral", [keywords |-> << "later", "busy", "next quarter" >>,
                       patterns |-> << "reach out again" >>] >>,
       << "negative", [keywords |-> << "not interested", "unsubscribe", "Remove me" >>,
                       patterns |-> << "do not contact" >>] >> >>

SampleTemplates ==
    [positive |-> [template |-> "Great to hear from {company}. Are you free {suggested_time}?",
                   tone |-> "warm"],
     neutral |-> [template |-> "Thanks for asking. {answer_to_question}", tone |-> "helpful"],
     objection |->
         [templates_by_objection |->
              [price |-> "Understood. {company} would start with a scoped audit.",
               default |-> "Fair point. Happy to share how this worked for teams like {company}."],
          tone |-> "calm"],
     deferral |-> [template |-> "No problem. I'll check back in {followup_timeframe}.",
                   tone |-> "patient"],
     negative |-> [template |-> "Understood, I won't follow up again.", tone |-> "brief"]]

SamplePlaybook ==
    Dict([intent_classification |-> SampleClassification,
          followup_templates |-> SampleTemplates])

Reverse(seq) == [i \in 1..Len(seq) |-> seq[Len(seq) + 1 - i]]

\* the same playbook with its intents in the opposite file order
ReversedPlaybook ==
    Dict([intent_classification |-> Reverse(SampleClassification),
          followup_templates |-> SampleTemplates])

\* the sequences over S of length at most n
RECURSIVE SeqsUpTo(_, _)
SeqsUpTo(S, n) ==
    IF n = 0 THEN { << >> }
    ELSE LET shorter == SeqsUpTo(S, n - 1)
         IN  shorter \cup { Append(s, x) : s \in shorter, x \in S }

\* inbound replies are made of at most this many fragments
MaxFragments == 2

ReplyFragments ==
    { "Yes, I'm interested.",
      "Sounds good, let's schedule a call!",
      "Call me.",
      "Thanks but we're not interested right now,",
      "please UNSUBSCRIBE",
      "Do  not\ncontact us.",
      "How expensive?",
      "Busy now, try later." }

ReplyTexts == { Join(s, " ") : s \in SeqsUpTo(ReplyFragments, MaxFragments) }

Intents == { "positive", "neutral", "objection", "deferral", "negative" }

Placeholders ==
    { "{company}", "{suggested_time}", "{followup_timeframe}", "{answer_to_question}" }

\* registered templates hold at most this many placeholders
MaxPlaceholders == 2

Templates == { "Hello. " \o Join(s, " / ") : s \in SeqsUpTo(Placeholders, MaxPlaceholders) }

\* a playbook that registers the template t for every intent and objection subtype
PlaybookWithTemplate(t) ==
    Dict([intent_classification |-> SampleClassification,
          followup_templates |->
              [positive |-> [template |-> t],
               neutral |-> [template |-> t],
               objection |-> [templates_by_objection |-> [timing |-> t, default |-> t]],
               deferral |-> [template |-> t],
               negative |-> [template |-> t]]])

FollowupTexts ==
    { "", "Let's reconnect next quarter", "Too expensive for us",
      "Maybe after the launch", "Not sure if this is the right fit" }

FollowupLeads ==
    { [NoLead EXCEPT !.company = c] : c \in { None, Some("Beta Corp") } }

\* the state once the process has imported its modules, before any call
StartEngines(kpFile, pbFile, l, text, intent, args, industry) ==
    LET kp == load_knowledge_pack(kpFile)
        imported == ImportScoring(kp)
    IN  /\ KNOWLEDGE_PACK = kp
        /\ KNOWLEDGE_PACK_INDUSTRIES = (IF imported.tag = "ok" THEN imported.value ELSE << >>)
        /\ process = (IF imported.tag = "ok" THEN "running" ELSE imported.exc)
        /\ RESPONSE_PLAYBOOK = load_response_playbook(pbFile)
        /\ lead = l
        /\ inbound_text = text
        /\ intent_label = intent
        /\ scoreResult = NoResult
        /\ classification = NoResult
        /\ followup = NoResult
        /\ draft = NoResult
        /\ label_args = args
        /\ quality_label = NoResult
        /\ industry_arg = industry
        /\ relevanceResult = NoResult
        /\ timeframe = NoResult
        /\ matched_signals = NoResult

\* no request has arrived
NoRequests == [r \in 1..MaxRequests |-> Idle]

\* the tables as create_all leaves them: empty
EmptyDatabase ==
    /\ db_leads = << >>
    /\ sent_emails = EmptyBag
    /\ daily_email_counts = None
    /\ mailbox = EmptyBag
    /\ requests = NoRequests

StartWith(kpFile, pbFile, l, text, intent, args, industry) ==
    /\ StartEngines(kpFile, pbFile, l, text, intent, args, industry)
    /\ EmptyDatabase

NoLabelArgs == [score |-> 0, has_neg |-> FALSE]

Start(kpFile, pbFile, l, text, intent) ==
    StartWith(kpFile, pbFile, l, text, intent, NoLabelArgs, "your industry")

-----------------------------------------------------------------------------
(* The operations *)

\* a variant of ScoreLead that writes the text it matched back into the Lead
ScoreLeadKeepingText ==
    /\ process = "running"
    /\ scoreResult' = score_lead(lead)
    /\ lead' = [lead EXCEPT !.notes = Some(_notes_text(lead))]
    /\ UNCHANGED << dbVars, mailbox, requests, configVars, diagVars, labelVars,
                    relevanceVars, inbound_text, intent_label, classification, followup,
                    draft, process >>

\* a call of score_lead(lead)
ScoreLead ==
    /\ process = "running"
    /\ scoreResult' = score_lead(lead)
    /\ UNCHANGED << dbVars, mailbox, requests, configVars, diagVars, labelVars,
                    relevanceVars, inputVars, classification, followup, draft,
                    process >>

\* a call of classify_reply_detailed(inbound_text)
ClassifyReply ==
    /\ process = "running"
    /\ classification' = classify_reply_detailed(inbound_text)
    /\ UNCHANGED << dbVars, mailbox, requests, configVars, diagVars, labelVars,
                    relevanceVars, inputVars, scoreResult, followup, draft, process >>

\* a call of draft_followup_with_context(intent_label, lead, inbound_text)
DraftFollowup ==
    /\ process = "running"
    /\ followup' = draft_followup_with_context(intent_label, lead, inbound_text)
    /\ UNCHANGED << dbVars, mailbox, requests, configVars, diagVars, labelVars,
                    relevanceVars, inputVars, scoreResult, classification, draft,
                    process >>

\* a call of draft_outreach_email(lead)
DraftOutreach ==
    /\ process = "running"
    /\ draft' = draft_outreach_email(lead)
    /\ UNCHANGED << dbVars, mailbox, requests, configVars, diagVars, labelVars,
                    relevanceVars, inputVars, scoreResult, classification, followup,
                    process >>

\* a call of _extract_timeframe(inbound_text)
ExtractTimeframe ==
    /\ process = "running"
    /\ timeframe' = [tag |-> "ok", value |-> _extract_timeframe(inbound_text)]
    /\ UNCHANGED << dbVars, mailbox, requests, configVars, inputVars, resultVars,
                    labelVars, relevanceVars, matched_signals, process >>

\* a call of get_matched_signals(lead)
GetMatchedSignals ==
    /\ process = "running"
    /\ matched_signals' = [tag |-> "ok", value |-> get_matched_signals(lead)]
    /\ UNCHANGED << dbVars, mailbox, requests, configVars, inputVars, resultVars,
                    labelVars, relevanceVars, timeframe, process >>

\* a request to the score endpoint, for a lead of the table or for an unknown id
ScoreLeadEndpoint ==
    \E r \in 1..MaxRequests, lead_id \in 1..(Len(db_leads) + 1) :
        score_lead_endpoint(r, lead_id)

\* the ids a request may name: every lead of the table and one unknown id
RequestedIds == 1..(Len(db_leads) + 1)

\* what every step of a sending request leaves alone
SendFrame == UNCHANGED << configVars, engineVars, process >>

ApproveLead ==
    /\ process = "running"
    /\ \E r \in 1..MaxRequests, lead_id \in RequestedIds, connected \in BOOLEAN :
           approve_lead_start(r, lead_id, connected)
    /\ SendFrame

SendEmailToLead ==
    /\ process = "running"
    /\ \E r \in 1..MaxRequests, lead_id \in RequestedIds, connected \in BOOLEAN :
           send_email_to_lead_start(r, lead_id, connected)
    /\ SendFrame

ReplyRequests ==
    { [lead_id |-> id, to_email |-> "reply@lead.example", subject |-> "Re: ADINA",
       body |-> "Happy to talk."] : id \in RequestedIds }

SendReplyEmail ==
    /\ process = "running"
    /\ \E r \in 1..MaxRequests, send_request \in ReplyRequests, connected \in BOOLEAN :
           send_reply_email_start(r, send_request, connected)
    /\ SendFrame

ApproveAndSendLead ==
    /\ process = "running"
    /\ \E r \in 1..MaxRequests, lead_id \in RequestedIds, dry_run \in BOOLEAN,
          connected \in BOOLEAN :
           approve_and_send_lead_start(r, lead_id, dry_run, connected)
    /\ SendFrame

BatchRequests ==
    { [lead_ids |-> None, limit |-> None], [lead_ids |-> None, limit |-> Some(1)],
      [lead_ids |-> Some(1..Len(db_leads)), limit |-> None] }

SendBatchEmails ==
    /\ process = "running"
    /\ \E r \in 1..MaxRequests, request \in BatchRequests, connected \in BOOLEAN,
          leads \in SeqsUpTo(DOMAIN db_leads, Len(db_leads)) :
           send_batch_emails_start(r, request, connected, leads)
    /\ SendFrame

\* the mail provider answers a request
SendEmail ==
    /\ \E r \in 1..MaxRequests : send_email(r)
    /\ SendFrame

SendRecorded ==
    /\ \E r \in 1..MaxRequests : send_recorded(r)
    /\ SendFrame

SendReplyRecorded ==
    /\ \E r \in 1..MaxRequests : send_reply_recorded(r)
    /\ SendFrame

SendBatchRecorded ==
    /\ \E r \in 1..MaxRequests : send_batch_recorded(r)
    /\ SendFrame

\* a call of get_quality_label(score, has_neg), as get_lead_profile makes it
GetQualityLabel ==
    /\ process = "running"
    /\ quality_label' =
           [tag |-> "ok", label |-> get_quality_label(label_args.score, label_args.has_neg)]
    /\ UNCHANGED << dbVars, mailbox, requests, configVars, diagVars, inputVars,
                    resultVars, label_args, relevanceVars, process >>

\* a call of get_industry_relevance(industry)
GetIndustryRelevance ==
    /\ process = "running"
    /\ relevanceResult' = [tag |-> "ok", value |-> get_industry_relevance(industry_arg)]
    /\ UNCHANGED << dbVars, mailbox, requests, configVars, diagVars, inputVars,
                    resultVars, labelVars, industry_arg, process >>

-----------------------------------------------------------------------------
(* The four engines behind one process, over every kind of configuration file *)

\* a playbook file that holds the classification rules and no templates
ClassificationOnlyPlaybook == Dict([intent_classification |-> SampleClassification])

PlaybookFiles ==
    { Absent, Unreadable, Unparseable, OtherError,
      Parsed(Dict(EmptyDict)), Parsed(SamplePlaybook), Parsed(ClassificationOnlyPlaybook),
      Parsed(NotADict("list")) }

Leads ==
    { NoLead,
      [company |-> Some("Acme"), industry |-> Some("Real Estate"),
       location |-> Some("Austin, Texas"), employees |-> Some(MaxEmployees),
       stage |-> Some("Series A"), notes |-> Some("Founder-led, burnout"),
       company_description |-> Some("Owner-operated lifestyle brand")],
      [company |-> Some("Glow"), industry |-> Some("Beauty"), location |-> None,
       employees |-> None, stage |-> None,
       notes |-> Some("Tried a fractional COO last year"), company_description |-> None] }

Texts == { "Sounds good, let's schedule a call!", "Busy now, try next quarter." }

Init ==
    \E kpFile \in KnowledgePackFiles, pbFile \in PlaybookFiles,
       l \in Leads, text \in Texts, intent \in { "positive", "deferral", "objection" } :
        Start(kpFile, pbFile, l, text, intent)

Next == ScoreLead \/ ClassifyReply \/ DraftFollowup \/ DraftOutreach

Spec == Init /\ [][Next]_vars

-----------------------------------------------------------------------------
(* The scoring engine on its own *)

InitScore ==
    \E kpFile \in { Absent, Parsed(SampleKnowledgePack) }, l \in ScoreLeads :
        Start(kpFile, Absent, l, "", "neutral")

NextScore == ScoreLead

SpecScore == InitScore /\ [][NextScore]_vars

-----------------------------------------------------------------------------
(* The scoring engine over the values of the stage field *)

StageValues ==
    { None, Some(""), Some("Series A"), Some("Seed"), Some("Pre-Seed"), Some("Pre Seed"),
      Some("Pre revenue"), Some("Pre-Revenue"), Some("Idea"), Some("Proof of Concept") }

StageLeads ==
    { [company |-> Some("Acme"), industry |-> Some("Regulated Fintech"),
       location |-> Some("Lyon"), employees |-> e, stage |-> st, notes |-> n,
       company_description |-> d] :
          st \in StageValues,
          e \in { None, Some(MaxEmployees) },
          n \in { None, Some("Just launched"), Some("Growing team") },
          d \in { None, Some("Early stage startup") } }

InitStage ==
    \E l \in StageLeads : Start(Parsed(SampleKnowledgePack), Absent, l, "", "neutral")

NextStage == ScoreLead

SpecStage == InitStage /\ [][NextStage]_vars

-----------------------------------------------------------------------------
(* The scoring engine over notes that are empty or one BURNOUT phrase *)

Range(seq) == { seq[i] : i \in 1..Len(seq) }

EmptyNotes == { None, Some("") }

BurnoutNotes == { Some(p) : p \in Range(BURNOUT_SIGNALS) \cup { "Burned Out" } }

BurnoutLeads ==
    { [company |-> Some("Acme"), industry |-> i, location |-> Some("Austin, Texas"),
       employees |-> e, stage |-> st, notes |-> n, company_description |-> d] :
          i \in { Some("Real Estate"), Some("Regulated Fintech") },
          e \in { None, Some(MaxEmployees - 1) },
          st \in { Some("Series A"), Some("Idea") },
          n \in EmptyNotes \cup BurnoutNotes,
          d \in { None, Some(""), Some("Team is stretched thin"), Some("Runs the studio") } }

InitBurnout ==
    \E l \in BurnoutLeads : Start(Parsed(SampleKnowledgePack), Absent, l, "", "neutral")

NextBurnout == ScoreLead

SpecBurnout == InitBurnout /\ [][NextBurnout]_vars

-----------------------------------------------------------------------------
(* The scoring engine and its diagnostics over notes that hold NEGATIVE phrases *)

SignalNotes ==
    { None, Some("Growing team"), Some("Downsizing"), Some("Not a fit, RESTRUCTURING") }

SignalDescriptions ==
    { None, Some("Restructuring"), Some("Owner-operated lifestyle brand") }

SignalLeads ==
    { [company |-> Some("Acme"), industry |-> Some("Fitness Studios"), location |-> loc,
       employees |-> e, stage |-> Some("Series A"), notes |-> n,
       company_description |-> d] :
          loc \in ScoreLocations, e \in { None, Some(MaxEmployees) },
          n \in SignalNotes, d \in SignalDescriptions }

InitSignals ==
    \E l \in SignalLeads : Start(Parsed(SampleKnowledgePack), Absent, l, "", "neutral")

NextSignals == ScoreLead \/ GetMatchedSignals

SpecSignals == InitSignals /\ [][NextSignals]_vars

-----------------------------------------------------------------------------
(* The score endpoint over leads of every status *)

LeadStatuses == { "new", "qualified", "drafted", "approved", "sent" }

EndpointNotes ==
    { None, Some("Downsizing"), Some("Founder-led, $10M+, burnout, urgent need") }

EndpointLeads ==
    { [company |-> Some("Acme"), industry |-> Some("Fitness Studios"), location |-> loc,
       employees |-> None, stage |-> Some("Series A"), notes |-> n,
       company_description |-> d] :
          loc \in ScoreLocations, n \in EndpointNotes,
          d \in { None, Some("Owner-operated lifestyle brand") } }

\* the engines as the running service holds them, with nothing called yet
ServiceStarted ==
    StartEngines(Parsed(SampleKnowledgePack), Absent, NoLead, "", "neutral",
                 NoLabelArgs, "your industry")

InitScoreEndpoint ==
    \E l \in EndpointLeads, status \in LeadStatuses :
        /\ ServiceStarted
        /\ db_leads = << LeadRow(l, status, None, None, None) >>
        /\ sent_emails = EmptyBag
        /\ daily_email_counts = None
        /\ mailbox = EmptyBag
        /\ requests = NoRequests

NextScoreEndpoint == ScoreLeadEndpoint

SpecScoreEndpoint == InitScoreEndpoint /\ [][NextScoreEndpoint]_vars

-----------------------------------------------------------------------------
(* The sending handlers, interleaved, over a day that has seen some email *)

\* the table holds this many leads
MaxLeads == 2

SendLead ==
    [company |-> Some("Acme"), industry |-> Some("Fitness Studios"),
     location |-> Some("Austin, Texas"), employees |-> None, stage |-> Some("Series A"),
     notes |-> Some("Growing team"), company_description |-> None]

\* a lead approved with a saved draft, one drafted without, one without a recipient
SendLeadRows ==
    { LeadRow(SendLead, "approved", Some("founder@acme.example"),
              Some("Acme + ADINA"), Some("Hi, ...")),
      LeadRow(SendLead, "qualified", Some("founder@acme.example"), None, None),
      LeadRow(SendLead, "approved", None, Some("Acme + ADINA"), Some("Hi, ...")) }

\* the emails of earlier today, as the log and the provider hold them
EarlierMessage == Message(0, "someone@else.example", "Earlier", "...")

EarlierSentEmail ==
    [lead_id |-> 0, to_email |-> "someone@else.example", subject |-> "Earlier",
     body |-> "..."]

Copies(x, n) == IF n = 0 THEN EmptyBag ELSE [e \in { x } |-> n]

\* the day so far: nothing sent, or one email short of the limit
EarlierToday == { 0, DAILY_SEND_LIMIT - 1 }

InitSend ==
    \E rows \in [1..MaxLeads -> SendLeadRows], n \in EarlierToday :
        /\ ServiceStarted
        /\ db_leads = rows
        /\ sent_emails = Copies(EarlierSentEmail, n)
        /\ daily_email_counts = (IF n = 0 THEN None ELSE Some(n))
        /\ mailbox = Copies(EarlierMessage, n)
        /\ requests = NoRequests

NextSend ==
    \/ ApproveLead
    \/ SendEmailToLead
    \/ SendBatchEmails
    \/ SendReplyEmail
    \/ ApproveAndSendLead
    \/ SendEmail
    \/ SendRecorded
    \/ SendReplyRecorded
    \/ SendBatchRecorded

SpecSend == InitSend /\ [][NextSend]_vars

-----------------------------------------------------------------------------
(* send_email_to_lead and send_batch_emails alone, interleaved *)

NextSendApproved ==
    \/ SendEmailToLead
    \/ SendBatchEmails
    \/ SendEmail
    \/ SendRecorded
    \/ SendBatchRecorded

SpecSendApproved == InitSend /\ [][NextSendApproved]_vars

-----------------------------------------------------------------------------
(* The quality label over every score and both values of has_neg *)

LabelArgs == [score : MinScore..MaxScore, has_neg : BOOLEAN]

InitLabel ==
    \E args \in LabelArgs : StartWith(Absent, Absent, NoLead, "", "neutral", args, "your industry")

NextLabel == GetQualityLabel

SpecLabel == InitLabel /\ [][NextLabel]_vars

-----------------------------------------------------------------------------
(* The outreach engine on its own *)

\* knowledge packs with one of the two rebuttals, with an industry rebuttal
\* whose first sentence is empty, and with the rebuttals and no proof points
ConsultantsOnlyPack ==
    Dict([industries_served |-> << "Real Estate", "Beauty" >>,
          proof_points |-> << "Beauty brand: founder hours cut from 70 to 45." >>,
          objections_and_rebuttals |->
              (CONSULTANTS_QUESTION :> "We build alongside your team. No slide decks.")])

IndustryOnlyPack ==
    Dict([industries_served |-> << "Real Estate", "Beauty" >>,
          proof_points |-> << "Real estate brokerage doubled closings" >>,
          objections_and_rebuttals |->
              (INDUSTRY_QUESTION :> "Our systems adapt to your compliance needs.")])

EmptySentencePack ==
    Dict([industries_served |-> << "Travel" >>,
          proof_points |-> << "  .; Travel agencies" >>,
          objections_and_rebuttals |->
              (INDUSTRY_QUESTION :> " . We have done it before.")
              @@ (CONSULTANTS_QUESTION :> "We build alongside your team.")])

OutreachPacks ==
    { Dict(EmptyDict), SampleKnowledgePack, ConsultantsOnlyPack, IndustryOnlyPack,
      EmptySentencePack }

OutreachIndustries ==
    { None, Some("Real Estate"), Some("Beauty"), Some("Regulated Fintech"),
      Some("Healthcare"), Some("Travel") }

OutreachNotes ==
    { None, Some("Tried a fractional COO last year"), Some("Burned by consultants"),
      Some("Growing team") }

OutreachLeads ==
    { [company |-> Some("Acme"), industry |-> i, location |-> loc, employees |-> None,
       stage |-> st, notes |-> n, company_description |-> None] :
          i \in OutreachIndustries, n \in OutreachNotes,
          loc \in { None, Some("Austin, Texas") }, st \in { None, Some("Series A") } }

InitOutreach ==
    \E kp \in OutreachPacks, l \in OutreachLeads :
        Start(Parsed(kp), Absent, l, "", "neutral")

NextOutreach == DraftOutreach

SpecOutreach == InitOutreach /\ [][NextOutreach]_vars

-----------------------------------------------------------------------------
(* The industry relevance lookup over industry texts *)

IndustryWords ==
    { "", "Real Estate", "BEAUTY", "Travel", "Wellness", "Wellness & Fitness", "Fitness",
      "Healthcare", "Media", "Media & Travel", "Estate", "Fintech", "your industry", "e" }

IndustryTexts ==
    { before \o w \o after :
          w \in IndustryWords, before \in { "", " " }, after \in { "", "  ", " Group" } }

InitRelevance ==
    \E industry \in IndustryTexts :
        StartWith(Absent, Absent, NoLead, "", "neutral", NoLabelArgs, industry)

NextRelevance == GetIndustryRelevance

SpecRelevance == InitRelevance /\ [][NextRelevance]_vars

-----------------------------------------------------------------------------
(* The follow-up engine over objections *)

\* registrations of objection templates: every subtype, two of them, one
\* without a default, none
ObjectionTemplateSets ==
    { [price |-> "On price: {company} would start with a scoped audit.",
       timing |-> "On timing: when would suit {company} better?",
       fit |-> "On fit: here is how teams like {company} use us.",
       default |-> "Fair point. Happy to share more with {company}."],
      [price |-> "On price: {company} would start with a scoped audit.",
       default |-> "Fair point. Happy to share more with {company}."],
      [timing |-> "On timing: when would suit {company} better?"],
      EmptyDict }

\* a playbook that registers the objection templates tbo
ObjectionPlaybook(tbo) ==
    Dict([intent_classification |-> SampleClassification,
          followup_templates |->
              [SampleTemplates EXCEPT !.objection = [templates_by_objection |-> tbo]]])

ObjectionTexts ==
    { "", "Hmm.", "Too EXPENSIVE, and we are busy until next quarter",
      "Busy right now; not sure if this is the right fit",
      "This is not for us", "Not what we need at that price",
      "Maybe later", "What would the investment be?" }

InitObjection ==
    \E tbo \in ObjectionTemplateSets, l \in FollowupLeads, text \in ObjectionTexts,
       intent \in Intents :
        Start(Absent, Parsed(ObjectionPlaybook(tbo)), l, text, intent)

NextObjection == DraftFollowup

SpecObjection == InitObjection /\ [][NextObjection]_vars

-----------------------------------------------------------------------------
(* _extract_timeframe on its own *)

TimeframeFragments ==
    { "Let's talk next quarter", "maybe Q3", "Next month", "next week works",
      "in a few weeks", "in the New Year", "January", "after the fundraise",
      "after we hire", "After the launch", "we raise", "the launch", "Thereafter." }

TimeframeTexts == { Join(s, " ") : s \in SeqsUpTo(TimeframeFragments, MaxFragments) }

InitTimeframe ==
    \E text \in TimeframeTexts : Start(Absent, Absent, NoLead, text, "deferral")

NextTimeframe == ExtractTimeframe

SpecTimeframe == InitTimeframe /\ [][NextTimeframe]_vars

-----------------------------------------------------------------------------
(* The classifier on its own *)

InitClassify ==
    \E pbFile \in { Absent, Parsed(SamplePlaybook), Parsed(ReversedPlaybook) },
       text \in ReplyTexts :
        Start(Absent, pbFile, NoLead, text, "neutral")

NextClassify == ClassifyReply

SpecClassify == InitClassify /\ [][NextClassify]_vars

-----------------------------------------------------------------------------
(* The follow-up engine on its own *)

InitFollowup ==
    \E pbFile \in { Parsed(PlaybookWithTemplate(t)) : t \in Templates }
                      \cup { Parsed(SamplePlaybook) },
       l \in FollowupLeads, text \in FollowupTexts, intent \in Intents :
        Start(Absent, pbFile, l, text, intent)

NextFollowup == DraftFollowup

SpecFollowup == InitFollowup /\ [][NextFollowup]_vars

-----------------------------------------------------------------------------
(* Properties of the scoring engine (checked under SpecScore) *)

Scored == scoreResult.tag = "ok"

InSeq(x, seq) == \E i \in 1..Len(seq) : seq[i] = x

\* the rules a lead triggers, as the specification lists them
Triggers(l) ==
    LET notes == _notes_text(l)
    IN  [industry |-> is_industry_match(l.industry),
         location |-> is_us_or_dubai(l.location),
         founder |-> has_founder_led_signal(notes),
         revenue |-> has_revenue_scale_signal(notes),
         burnout |-> has_burnout_signal(notes),
         strong |-> has_strong_positive_signal(notes),
         ops |-> has_ops_keywords(notes),
         early |-> has_early_stage_signal(l),
         small |-> is_small_agency(l.employees),
         regulated |-> is_regulated_industry(l.industry),
         lifestyle |-> has_lifestyle_signal(notes),
         negative |-> has_negative_signal(l.notes)]

If(b, n) == IF b THEN n ELSE 0

\* the sum of the deltas of the triggered rules
DeltaSum(t) ==
    If(t.industry, 30) + If(t.location, 20) + If(t.founder, 25) + If(t.revenue, 20)
    + If(t.burnout, 20) + (IF t.strong THEN 15 ELSE If(t.ops, 10))
    + If(t.early, -20) + If(t.small, -15) + If(t.regulated, -10)
    + If(t.lifestyle, -15) + If(t.negative, -15)

NoRuleTriggered(t) ==
    ~(t.industry \/ t.location \/ t.founder \/ t.revenue \/ t.burnout \/ t.strong
      \/ t.ops \/ t.early \/ t.small \/ t.regulated \/ t.lifestyle \/ t.negative)

Clamp(n, lo, hi) == IF n < lo THEN lo ELSE IF n > hi THEN hi ELSE n

StrongReason == "Notes show explicit operational need for Adina services (+15)"
OpsReason == "Notes reference operational activity and scaling context (+10)"

\* C1: the score returned by score_lead is between 0 and 100 inclusive, for
\* every lead, absent fields included.
C1_ScoreInRange == Scored => scoreResult.score >= 0 /\ scoreResult.score <= 100

\* C1 witness: a lead was scored whose deltas add up to more than 100 (the cap acted).
C1_Witness == Scored /\ DeltaSum(Triggers(lead)) > 100 /\ scoreResult.score = 100

\* C2: the score is the sum of the deltas of the triggered rules clamped to
\* [0, 100], with +15 for strong-positive or else +10 for ops keywords, and
\* the two bonuses are never both applied.
C2_ScoreIsClampedSum ==
    Scored =>
        /\ scoreResult.score = Clamp(DeltaSum(Triggers(lead)), 0, 100)
        /\ ~(InSeq(StrongReason, scoreResult.reasons) /\ InSeq(OpsReason, scoreResult.reasons))

\* C2 witness: a scored lead whose notes hold a strong-positive phrase and an
\* ops keyword, with a sum strictly inside the range.
C2_Witness ==
    /\ Scored
    /\ Triggers(lead).strong /\ Triggers(lead).ops
    /\ DeltaSum(Triggers(lead)) > 0 /\ DeltaSum(Triggers(lead)) < 100
    /\ InSeq(StrongReason, scoreResult.reasons)

\* C3: the reasons list is never empty; it is exactly the no-criteria marker
\* if and only if no rule triggered, and then the score is 0.
C3_ReasonsNonEmpty ==
    Scored =>
        /\ Len(scoreResult.reasons) >= 1
        /\ (scoreResult.reasons = << NoCriteriaReason >>) <=> NoRuleTriggered(Triggers(lead))
        /\ NoRuleTriggered(Triggers(lead)) => scoreResult.score = 0

\* C3 witness: a lead that triggers no rule was scored.
C3_Witness == Scored /\ NoRuleTriggered(Triggers(lead)) /\ scoreResult.score = 0

WithDescription(l, d) == [l EXCEPT !.company_description = d]

HasPrefix(s, p) == Len(s) >= Len(p) /\ SubSeq(s, 1, Len(p)) = p

\* the reasons of the rules that read no notes text, and of the negative rule
IsDescriptionBlindReason(r) ==
    \/ HasPrefix(r, "Industry '")
    \/ HasPrefix(r, "Location '")
    \/ HasPrefix(r, "Small team (")
    \/ HasPrefix(r, "Regulated industry ('")
    \/ HasPrefix(r, "Notes indicate current mismatch: '")

DescriptionBlindReasons(result) == SelectSeq(result.reasons, IsDescriptionBlindReason)

\* C4 as stated: leads that differ only in company_description receive the
\* same score and the same reasons.
C4_DescriptionNeverUsed ==
    Scored => \A d \in ScoreDescriptions : score_lead(WithDescription(lead, d)) = scoreResult

\* C4 as amended: leads that differ only in company_description receive the
\* same outcome of the industry, location, small-team, regulated-industry and
\* negative-signal rules (the same reasons for them, in the same order); the
\* negative-signal rule reads lead.notes alone.
C4_DescriptionBlindRules ==
    Scored =>
        \A d \in ScoreDescriptions :
            DescriptionBlindReasons(score_lead(WithDescription(lead, d)))
                = DescriptionBlindReasons(scoreResult)

\* C4 witness: a scored lead whose company_description holds a NEGATIVE phrase
\* while its notes hold none: no negative-signal reason is given.
C4_Witness ==
    /\ Scored
    /\ ContainsAny(Lower(OrElse(lead.company_description, "")), NEGATIVE_SIGNALS)
    /\ ~has_negative_signal(lead.notes)
    /\ \A i \in 1..Len(scoreResult.reasons) :
           ~HasPrefix(scoreResult.reasons[i], "Notes indicate current mismatch: '")

NegativeReasonPrefix == "Notes indicate current mismatch: '"

\* the reasons of a result that the negative-signal rule gave
NegativeReasons(result) ==
    SelectSeq(result.reasons, LAMBDA r : HasPrefix(r, NegativeReasonPrefix))

\* the positions in the NEGATIVE lexicon of the phrases found in text
NegativePositions(text) ==
    { i \in 1..Len(NEGATIVE_SIGNALS) : Contains(Lower(text), NEGATIVE_SIGNALS[i]) }

\* C11: the -15 of the negative-signal rule is applied exactly when lead.notes
\* holds a NEGATIVE phrase, whatever company_description holds, and its
\* reason cites the phrase of lowest lexicon position found in lead.notes.
C11_NegativeFromNotesOnly ==
    Scored =>
        LET found == NegativePositions(OrElse(lead.notes, ""))
            first == CHOOSE i \in found : \A j \in found : i <= j
        IN  IF found = {}
            THEN NegativeReasons(scoreResult) = << >>
            ELSE NegativeReasons(scoreResult)
                     = << NegativeReasonPrefix \o NEGATIVE_SIGNALS[first] \o "' (-15)" >>

\* C11 witness: the notes hold two NEGATIVE phrases, the later one of the
\* lexicon first in the text, and the reason cites the earlier of the lexicon;
\* company_description holds a NEGATIVE phrase too and is not cited.
C11_Witness ==
    /\ Scored
    /\ lead.notes = Some("Downsizing, no immediate need")
    /\ lead.company_description = Some("Restructuring")
    /\ NegativeReasons(scoreResult)
           = << "Notes indicate current mismatch: 'no immediate need' (-15)" >>

\* the reason of the regulated-industry rule for a lead
RegulatedReason(l) ==
    "Regulated industry ('" \o OrElse(l.industry, "")
    \o "') adds complexity and longer sales cycles (-10)"

IndustryMentions(l, word) == Contains(Lower(OrElse(l.industry, "")), word)

\* C12 as stated: the regulated-industry penalty is applied to every lead
\* whose industry text contains "healthcare", "real estate" or the word
\* "regulated".
C12_RegulatedWordPenalised ==
    (/\ Scored
     /\ \/ IndustryMentions(lead, "healthcare")
        \/ IndustryMentions(lead, "real estate")
        \/ IndustryMentions(lead, "regulated"))
        => InSeq(RegulatedReason(lead), scoreResult.reasons)

\* C12 as amended: the regulated-industry penalty is applied exactly to the
\* leads whose industry text contains "healthcare" or "real estate"; the word
\* "regulated" alone brings no penalty.
C12_RegulatedIndustries ==
    Scored =>
        (InSeq(RegulatedReason(lead), scoreResult.reasons)
            <=> (\/ IndustryMentions(lead, "healthcare")
                 \/ IndustryMentions(lead, "real estate")))

\* C12 witness: a lead in real estate was scored and penalised, and its score
\* is the clamped sum with the -10 in it.
C12_Witness ==
    /\ Scored
    /\ lead.industry = Some("Real Estate")
    /\ InSeq(RegulatedReason(lead), scoreResult.reasons)
    /\ Triggers(lead).regulated
    /\ scoreResult.score > 0

EarlyStageReason ==
    "Early-stage or pre-revenue -- not yet at Adina's target scale (-20)"

StageMentions(l, word) == Contains(Lower(OrElse(l.stage, "")), word)

NotesMentionEarlyStage(l) ==
    \E i \in 1..Len(EARLY_STAGE_SIGNALS) : Contains(_notes_text(l), EARLY_STAGE_SIGNALS[i])

\* C13 as stated (checked under SpecStage): the early-stage penalty is applied
\* exactly when the notes text holds an EARLY_STAGE phrase or the lowercased
\* stage contains "pre-revenue", "pre seed", "idea" or "concept".
C13_EarlyStageSpaced ==
    Scored =>
        (InSeq(EarlyStageReason, scoreResult.reasons)
            <=> \/ NotesMentionEarlyStage(lead)
                \/ StageMentions(lead, "pre-revenue")
                \/ StageMentions(lead, "pre seed")
                \/ StageMentions(lead, "idea")
                \/ StageMentions(lead, "concept"))

\* C13 as amended (checked under SpecStage): the early-stage penalty is
\* applied exactly when the notes text (notes and company_description joined)
\* holds an EARLY_STAGE phrase or the lowercased stage contains "pre-revenue",
\* "pre revenue", "pre-seed", "idea" or "concept".
C13_EarlyStageHyphenated ==
    Scored =>
        (InSeq(EarlyStageReason, scoreResult.reasons)
            <=> \/ NotesMentionEarlyStage(lead)
                \/ StageMentions(lead, "pre-revenue")
                \/ StageMentions(lead, "pre revenue")
                \/ StageMentions(lead, "pre-seed")
                \/ StageMentions(lead, "idea")
                \/ StageMentions(lead, "concept"))

\* C13 witness: a lead at stage "Pre-Seed" with nothing early in its notes
\* text was scored and penalised.
C13_Witness ==
    /\ Scored
    /\ lead.stage = Some("Pre-Seed")
    /\ ~NotesMentionEarlyStage(lead)
    /\ InSeq(EarlyStageReason, scoreResult.reasons)

\* the lead before the phrase was added: the same lead with empty notes
WithNotes(l, n) == [l EXCEPT !.notes = n]

InRange(n) == n >= 0 /\ n <= 100

\* the notes of the scored lead are one BURNOUT phrase and nothing else
NotesAreOneBurnoutPhrase ==
    /\ Scored
    /\ lead.notes # None
    /\ \E i \in 1..Len(BURNOUT_SIGNALS) : Lower(Val(lead.notes)) = BURNOUT_SIGNALS[i]

\* relative to the same lead with the empty notes n, the scored lead triggers
\* the burnout rule in addition and nothing else, and gains exactly 20 when
\* neither sum is clamped
GainsTwentyOver(n) ==
    LET before == WithNotes(lead, n)
        tb == Triggers(before)
        ta == Triggers(lead)
    IN  /\ ~tb.burnout /\ ta.burnout
        /\ ta = [tb EXCEPT !.burnout = TRUE]
        /\ (InRange(DeltaSum(tb)) /\ InRange(DeltaSum(ta)))
               => scoreResult.score = score_lead(before).score + 20

RuleOrder ==
    << "industry", "location", "founder", "revenue", "burnout", "bonus", "early",
       "small", "regulated", "lifestyle", "negative" >>

\* the rule a reason belongs to, told by how the reason begins
RuleOfReason(r) ==
    IF HasPrefix(r, "Industry '") THEN "industry"
    ELSE IF HasPrefix(r, "Location '") THEN "location"
    ELSE IF HasPrefix(r, "Founder-led business") THEN "founder"
    ELSE IF HasPrefix(r, "Revenue signals") THEN "revenue"
    ELSE IF HasPrefix(r, "Founder burnout risk") THEN "burnout"
    ELSE IF r = StrongReason \/ r = OpsReason THEN "bonus"
    ELSE IF HasPrefix(r, "Early-stage or pre-revenue") THEN "early"
    ELSE IF HasPrefix(r, "Small team (") THEN "small"
    ELSE IF HasPrefix(r, "Regulated industry ('") THEN "regulated"
    ELSE IF HasPrefix(r, "Lifestyle or solo operation") THEN "lifestyle"
    ELSE IF HasPrefix(r, NegativeReasonPrefix) THEN "negative"
    ELSE "none"

TriggeredRule(t, rule) ==
    IF rule = "bonus" THEN t.strong \/ t.ops ELSE t[rule]

\* the triggered rules of a lead, in evaluation order
TriggeredInOrder(l) ==
    LET t == Triggers(l) IN SelectSeq(RuleOrder, LAMBDA rule : TriggeredRule(t, rule))

\* a reason ends with its delta, "(+nn)" or "(-nn)"
ReasonIsPenalty(r) == SubSeq(r, Len(r) - 3, Len(r) - 3) = "-"

\* C15: the reasons list holds exactly one entry per triggered rule, in the
\* order industry, location, founder-led, revenue-scale, burnout,
\* strong-positive/ops, early-stage, small-team, regulated, lifestyle,
\* negative, whatever the deltas are (when no rule is triggered the list is
\* the no-criteria marker alone).
C15_ReasonsInEvaluationOrder ==
    Scored =>
        LET rules == [i \in 1..Len(scoreResult.reasons) |->
                          RuleOfReason(scoreResult.reasons[i])]
        IN  IF TriggeredInOrder(lead) = << >>
            THEN scoreResult.reasons = << NoCriteriaReason >>
            ELSE rules = TriggeredInOrder(lead)

\* C15 witness: a scored lead with six or more reasons where the +20 of the
\* location precedes the +25 of founder-led, the -20 of early-stage precedes
\* the -10 of regulated, and a bonus is directly followed by a penalty.
C15_Witness ==
    /\ Scored
    /\ Len(scoreResult.reasons) >= 6
    /\ \E i, j \in 1..Len(scoreResult.reasons) :
           /\ i < j
           /\ RuleOfReason(scoreResult.reasons[i]) = "location"
           /\ RuleOfReason(scoreResult.reasons[j]) = "founder"
    /\ \E i, j \in 1..Len(scoreResult.reasons) :
           /\ i < j
           /\ RuleOfReason(scoreResult.reasons[i]) = "early"
           /\ RuleOfReason(scoreResult.reasons[j]) = "regulated"
    /\ \E i \in 1..(Len(scoreResult.reasons) - 1) :
           /\ ~ReasonIsPenalty(scoreResult.reasons[i])
           /\ ReasonIsPenalty(scoreResult.reasons[i + 1])

-----------------------------------------------------------------------------
(* Properties of the scoring diagnostics (checked under SpecSignals) *)

Matched == matched_signals.tag = "ok"

\* C28: the "negatives" list returned by get_matched_signals for a lead is
\* non-empty exactly when score_lead applies the negative-signal penalty to
\* the same lead, for every combination of notes and company_description.
C28_NegativesAgreeWithPenalty ==
    (Scored /\ Matched) =>
        (matched_signals.value.negatives # << >>
             <=> NegativeReasons(scoreResult) # << >>)

\* notes with the phrase p added at their end
AddPhrase(notes, p) == IF Truthy(notes) THEN Some(Val(notes) \o ", " \o p) ELSE Some(p)

\* C29: adding any single NEGATIVE phrase to a lead's notes (all other
\* fields fixed) never increases the score returned by score_lead.
C29_NegativePhraseNeverRaises ==
    Scored =>
        \A i \in 1..Len(NEGATIVE_SIGNALS) :
            score_lead(WithNotes(lead, AddPhrase(lead.notes, NEGATIVE_SIGNALS[i]))).score
                <= scoreResult.score

-----------------------------------------------------------------------------
(* Properties of the quality label (checked under SpecLabel) *)

Labelled == quality_label.tag = "ok"

\* C16: with has_neg the label is "Possible Fit -- Not Hiring Now" from 65
\* and "Poor Fit" below; without it the label is "Hot Lead" from 90, "Strong
\* Fit" from 70, "Good Fit" from 50, "Possible Fit" from 30 and "Weak Fit"
\* below 30; with has_neg the label is never Hot Lead, Strong Fit or Good Fit.
C16_QualityLabelBands ==
    Labelled =>
        LET score == label_args.score
            label == quality_label.label
        IN  /\ (label_args.has_neg /\ score >= 65) => label = "Possible Fit -- Not Hiring Now"
            /\ (label_args.has_neg /\ score < 65) => label = "Poor Fit"
            /\ (~label_args.has_neg /\ score >= 90) => label = "Hot Lead"
            /\ (~label_args.has_neg /\ score >= 70 /\ score < 90) => label = "Strong Fit"
            /\ (~label_args.has_neg /\ score >= 50 /\ score < 70) => label = "Good Fit"
            /\ (~label_args.has_neg /\ score >= 30 /\ score < 50) => label = "Possible Fit"
            /\ (~label_args.has_neg /\ score < 30) => label = "Weak Fit"
            /\ label_args.has_neg => label \notin { "Hot Lead", "Strong Fit", "Good Fit" }

\* C16 witness: a score of 100 with a negative signal was labelled, and not
\* as a hot lead.
C16_Witness ==
    /\ Labelled
    /\ label_args = [score |-> 100, has_neg |-> TRUE]
    /\ quality_label.label = "Possible Fit -- Not Hiring Now"

-----------------------------------------------------------------------------
(* Properties of the classifier (checked under SpecClassify) *)

Classified == classification.tag = "ok"

\* the playbook's intents in file order, and the configuration of one
PlaybookIntents ==
    LET config == RESPONSE_PLAYBOOK.items.intent_classification
    IN  [i \in 1..Len(config) |-> config[i][1]]

ConfigOf(intent) ==
    LET config == RESPONSE_PLAYBOOK.items.intent_classification
    IN  config[CHOOSE i \in 1..Len(config) : config[i][1] = intent][2]

\* matched keywords + 2 x matched patterns of each intent for the inbound text
IntentScores ==
    LET text_lower == Lower(inbound_text)
        text_normalized == _normalize_text(inbound_text)
        ScoreOf(intent) ==
            LET keywords == ConfigOf(intent).keywords
                patterns == ConfigOf(intent).patterns
            IN  Cardinality({ i \in 1..Len(keywords) :
                                  Contains(text_lower, Lower(keywords[i])) })
                + 2 * Cardinality({ i \in 1..Len(patterns) :
                                        Contains(text_normalized, Lower(patterns[i])) })
    IN  [positive |-> ScoreOf("positive"), neutral |-> ScoreOf("neutral"),
         objection |-> ScoreOf("objection"), deferral |-> ScoreOf("deferral"),
         negative |-> ScoreOf("negative")]

\* the highest of the five scores
Top(sc) == CHOOSE s \in { sc[i] : i \in Intents } : \A i \in Intents : sc[i] <= s

PositionOf(intent) == CHOOSE i \in 1..Len(PlaybookIntents) : PlaybookIntents[i] = intent

\* C5: a negative score of at least 2 always yields intent "negative",
\* whatever the other intents score.
C5_NegativeOverride ==
    Classified =>
        LET sc == IntentScores
        IN  sc.negative >= 2 => classification.intent = "negative"

\* C5 witness: the negative score is at least 2, another intent scores
\* strictly higher, and the reply was classified as negative.
C5_Witness ==
    /\ Classified
    /\ classification.intent = "negative"
    /\ LET sc == IntentScores
       IN  sc.negative >= 2 /\ \E i \in Intents : sc[i] > sc.negative

\* C6: below the override the intent with the highest score wins, the first
\* in playbook order among tied intents; with every score 0 the result is
\* neutral, low, with empty matched lists.
C6_HighestScoreWins ==
    Classified =>
        LET sc == IntentScores
            top == Top(sc)
        IN  sc.negative < 2 =>
                IF top = 0
                THEN /\ classification.intent = "neutral"
                     /\ classification.confidence = "low"
                     /\ classification.matched_keywords = << >>
                     /\ classification.matched_patterns = << >>
                ELSE /\ sc[classification.intent] = top
                     /\ \A i \in Intents :
                            sc[i] = top
                                => PositionOf(classification.intent) <= PositionOf(i)

\* C6 witness: two intents tie for the highest positive score and the one
\* that comes first in this playbook's order, objection, was returned.
C6_Witness ==
    /\ Classified
    /\ classification.intent = "objection"
    /\ LET sc == IntentScores
       IN  /\ sc.negative < 2
           /\ Top(sc) > 0
           /\ sc.neutral = Top(sc) /\ sc.objection = Top(sc)

\* C7: the confidence is high / medium for a negative score of >= 3 / exactly
\* 2 on the override path; otherwise low for a winning score of 0 or 1,
\* medium for 2 or 3, high from 4 on.
C7_ConfidenceBands ==
    Classified =>
        LET sc == IntentScores
            top == Top(sc)
        IN  IF sc.negative >= 2
            THEN classification.confidence = (IF sc.negative >= 3 THEN "high" ELSE "medium")
            ELSE classification.confidence
                     = (IF top \in {0, 1} THEN "low"
                        ELSE IF top \in {2, 3} THEN "medium"
                        ELSE "high")

\* C7 witness: a winning score of exactly 3 off the override path, classified medium.
C7_Witness ==
    /\ Classified
    /\ classification.confidence = "medium"
    /\ LET sc == IntentScores
       IN  sc.negative < 2 /\ Top(sc) = 3

\* matched keywords + 2 x matched patterns of the returned classification
ReturnedScore ==
    Len(classification.matched_keywords) + 2 * Len(classification.matched_patterns)

\* the returned lists are the matches of the returned intent's configuration
ReturnedMatchesAreOfIntent ==
    LET config == ConfigOf(classification.intent)
    IN  /\ classification.matched_keywords
               = _count_keyword_matches(inbound_text, config.keywords)
        /\ classification.matched_patterns
               = _count_pattern_matches(inbound_text, config.patterns)

\* C27: the returned matched_keywords and matched_patterns are those of the
\* returned intent, and with s = |matched_keywords| + 2 x |matched_patterns|
\* the confidence is "low" iff s <= 1; for "negative" it is "medium" iff
\* s = 2 and "high" iff s >= 3; for any other intent "medium" iff s is 2 or
\* 3 and "high" iff s >= 4.
C27_ConfidenceAgreesWithMatches ==
    Classified =>
        LET s == ReturnedScore
        IN  /\ ReturnedMatchesAreOfIntent
            /\ classification.confidence
                   = (IF s <= 1 THEN "low"
                      ELSE IF classification.intent = "negative"
                      THEN (IF s = 2 THEN "medium" ELSE "high")
                      ELSE (IF s <= 3 THEN "medium" ELSE "high"))

\* C27 witness: a reply with one negative keyword and nothing stronger was
\* classified negative without the override, with confidence low.
C27_Witness ==
    /\ Classified
    /\ classification.intent = "negative"
    /\ ReturnedScore = 1
    /\ classification.confidence = "low"

-----------------------------------------------------------------------------
(* Properties of the follow-up engine (checked under SpecFollowup) *)

Drafted == followup.tag = "ok"

\* C8: whatever the intent and the registered template, the drafted body
\* holds no unsubstituted placeholder token.
C8_NoResidualPlaceholder ==
    Drafted => \A p \in Placeholders : ~Contains(followup.body, p)

\* the inbound text holds a keyword of the list
Mentions(keywords) == \E i \in 1..Len(keywords) : Contains(Lower(inbound_text), keywords[i])

\* the templates the playbook registers by objection subtype
RegisteredObjectionTemplates ==
    RESPONSE_PLAYBOOK.items.followup_templates.objection.templates_by_objection

\* C20 (checked under SpecObjection): for intent "objection" the subtype is
\* price if the text holds a price keyword, else timing if it holds a timing
\* keyword, else fit if it holds a fit keyword, else default; the body is
\* drafted from the template registered for that subtype, or from the
\* "default" template when the subtype has none.
C20_ObjectionSubtypePriority ==
    (Drafted /\ intent_label = "objection") =>
        LET subtype ==
                IF Mentions(PRICE_KEYWORDS) THEN "price"
                ELSE IF Mentions(TIMING_KEYWORDS) THEN "timing"
                ELSE IF Mentions(FIT_KEYWORDS) THEN "fit"
                ELSE "default"
            registered == RegisteredObjectionTemplates
            template ==
                IF subtype \in DOMAIN registered THEN registered[subtype]
                ELSE IF "default" \in DOMAIN registered THEN registered["default"]
                ELSE ""
        IN  followup.body = Replace(template, "{company}", OrElse(lead.company, "your company"))

\* C20 witness: an objection that mentions timing and fit, under a playbook
\* with a price and a default template only: the timing subtype wins and the
\* default template is drafted.
C20_Witness ==
    /\ Drafted /\ intent_label = "objection"
    /\ ~Mentions(PRICE_KEYWORDS) /\ Mentions(TIMING_KEYWORDS) /\ Mentions(FIT_KEYWORDS)
    /\ DOMAIN RegisteredObjectionTemplates = { "price", "default" }
    /\ lead.company = Some("Beta Corp")
    /\ followup.body = "Fair point. Happy to share more with Beta Corp."

-----------------------------------------------------------------------------
(* Properties of the process as a whole (checked under Spec) *)

Results == { scoreResult, classification, followup, draft }

\* C9: whatever the configuration files were at load time (absent, unreadable,
\* unparseable, or parseable without the expected keys or shape), the process
\* is running on either the configuration it was given in the expected shape
\* or the documented empty/default structure, and no call of the four
\* functions has raised.
C9_LoadNeverFails ==
    /\ process = "running"
    /\ \/ KNOWLEDGE_PACK = Dict(EmptyDict)
       \/ KNOWLEDGE_PACK = SampleKnowledgePack
    /\ \/ RESPONSE_PLAYBOOK = _empty_playbook
       \/ RESPONSE_PLAYBOOK = SamplePlaybook
    /\ \A r \in Results : r.tag # "raise"

-----------------------------------------------------------------------------
(* Properties of the outreach engine (checked under SpecOutreach) *)

Outreached == draft.tag = "ok"

\* the lines of the drafted body
BodyLines == SplitOn(draft.body, "\n")

\* the rebuttal text the knowledge pack registers for a question, "" if none
RebuttalText(question) ==
    Get(Get(KNOWLEDGE_PACK.items, "objections_and_rebuttals", EmptyDict), question, "")

\* the sentence drafted from a rebuttal text: up to its first period
SentenceOf(text) == Strip(SplitOn(text, ".")[1]) \o "."

\* the body holds the sentence of the rebuttal registered for the question
HasRebuttalOf(question) ==
    /\ RebuttalText(question) # ""
    /\ SentenceOf(RebuttalText(question)) # "."
    /\ InSeq(SentenceOf(RebuttalText(question)), BodyLines)

RebuttalCount ==
    Cardinality({ q \in { INDUSTRY_QUESTION, CONSULTANTS_QUESTION } : HasRebuttalOf(q) })

\* the lead's industry is regulated in the outreach engine's sense
RegulatedForOutreach ==
    \/ IndustryMentions(lead, "healthcare")
    \/ IndustryMentions(lead, "real estate")
    \/ IndustryMentions(lead, "regulated")

NotesMentionConsultants ==
    \/ Contains(Lower(OrElse(lead.notes, "")), "consultant")
    \/ Contains(Lower(OrElse(lead.notes, "")), "fractional co")

IndustryRebuttalApplies == RegulatedForOutreach /\ RebuttalText(INDUSTRY_QUESTION) # ""

DraftIndustry == OrElse(lead.industry, "your industry")

\* the body holds a proof-point line for the lead's industry
HasProofLine ==
    \E i \in 1..Len(BodyLines) :
        HasPrefix(BodyLines[i], "We've seen this work in " \o DraftIndustry \o ": ")

\* the industry matches an entry of the knowledge pack's served industries
\* (one contains the other, letter case aside)
IndustryIsServed ==
    LET served == Get(KNOWLEDGE_PACK.items, "industries_served", << >>)
    IN  \E i \in 1..Len(served) :
            \/ Contains(Lower(DraftIndustry), Lower(served[i]))
            \/ Contains(Lower(served[i]), Lower(DraftIndustry))

\* a proof point of the knowledge pack mentions the industry
ProofPointMentionsIndustry ==
    LET proofs == Get(KNOWLEDGE_PACK.items, "proof_points", << >>)
    IN  \E i \in 1..Len(proofs) : Contains(Lower(proofs[i]), Lower(DraftIndustry))

-----------------------------------------------------------------------------
(* Properties of the industry relevance lookup (checked under SpecRelevance) *)

Resolved == relevanceResult.tag = "ok"

RelevanceKey(i) == INDUSTRY_RELEVANCE[i][1]

RelevanceEntry(i) == INDUSTRY_RELEVANCE[i][2]

\* the industry text as it is compared: lowercased, without outer whitespace
ComparedIndustry == Strip(Lower(industry_arg))

ExactKeys == { i \in 1..Len(INDUSTRY_RELEVANCE) : RelevanceKey(i) = ComparedIndustry }

PartialKeys ==
    { i \in 1..Len(INDUSTRY_RELEVANCE) :
          \/ Contains(ComparedIndustry, RelevanceKey(i))
          \/ Contains(RelevanceKey(i), ComparedIndustry) }

Least(S) == CHOOSE i \in S : \A j \in S : i <= j

\* C19: the lookup returns the entry of the exactly matching key if there is
\* one, else the entry of the first key in insertion order that contains or is
\* contained in the industry text, else DEFAULT_RELEVANCE; an empty or
\* whitespace-only industry resolves to DEFAULT_RELEVANCE.
C19_RelevanceResolution ==
    Resolved =>
        /\ relevanceResult.value =
               IF ExactKeys # {} THEN RelevanceEntry(Least(ExactKeys))
               ELSE IF PartialKeys # {} THEN RelevanceEntry(Least(PartialKeys))
               ELSE DEFAULT_RELEVANCE
        /\ ComparedIndustry = "" => relevanceResult.value = DEFAULT_RELEVANCE

-----------------------------------------------------------------------------
(* Properties of _extract_timeframe (checked under SpecTimeframe) *)

Extracted == timeframe.tag = "ok"

\* the priority list of the specification: a rule matches a text that holds
\* every phrase of `all` and, when `any` is not empty, one phrase of `any`
TimeframeRules ==
    << [all |-> << >>, any |-> << "next quarter", "q2", "q3", "q4" >>,
        result |-> "next quarter"],
       [all |-> << >>, any |-> << "next month" >>, result |-> "a month"],
       [all |-> << >>, any |-> << "next week" >>, result |-> "next week"],
       [all |-> << >>, any |-> << "few weeks" >>, result |-> "a few weeks"],
       [all |-> << >>, any |-> << "next year", "new year" >>, result |-> "the new year"],
       [all |-> << >>, any |-> << "january" >>, result |-> "January"],
       [all |-> << "after" >>, any |-> << "fundraise", "raise" >>,
        result |-> "after your fundraise"],
       [all |-> << "after" >>, any |-> << "hire" >>, result |-> "after your hiring push"],
       [all |-> << "after" >>, any |-> << "launch" >>, result |-> "after your launch"] >>

RuleMatches(rule, text) ==
    /\ \A i \in 1..Len(rule.all) : Contains(Lower(text), rule.all[i])
    /\ ContainsAny(Lower(text), rule.any)

MatchingRules(text) ==
    { i \in 1..Len(TimeframeRules) : RuleMatches(TimeframeRules[i], text) }

\* C21: _extract_timeframe applies only the first matching rule of the fixed
\* priority list and returns "a few weeks" when no rule matches, also when
\* the text holds "after" and none of fundraise, raise, hire, launch.
C21_FirstTimeframeRule ==
    Extracted =>
        timeframe.value =
            IF MatchingRules(inbound_text) = {} THEN "a few weeks"
            ELSE TimeframeRules[Least(MatchingRules(inbound_text))].result

\* C21 witness: a text that matches a date rule and an "after" rule got the
\* date rule's timeframe.
C21_Witness ==
    /\ Extracted
    /\ 2 \in MatchingRules(inbound_text) /\ 9 \in MatchingRules(inbound_text)
    /\ timeframe.value = "a month"

\* a text that holds "after" and nothing to wait for got the default
C21_AfterAlone ==
    /\ Extracted
    /\ Contains(Lower(inbound_text), "after")
    /\ MatchingRules(inbound_text) = {}
    /\ timeframe.value = "a few weeks"

-----------------------------------------------------------------------------
(* Properties of the score endpoint (checked under SpecScoreEndpoint) *)

\* the lead with id lead_id was scored in this step, by request r
ScoredBy(r, lead_id) ==
    /\ requests[r] = Idle
    /\ requests'[r].op = "score_lead_endpoint"
    /\ "lead_id" \in DOMAIN requests'[r].response
    /\ requests'[r].response.lead_id = lead_id

\* C22: the score endpoint stores the score and reasons returned by
\* score_lead on the lead and sets the lead's status to "qualified" if and
\* only if that score is at least 70; below 70 the status is left unchanged,
\* whatever it was.
C22_ScoreEndpointQualifies ==
    [][ \A r \in 1..MaxRequests, lead_id \in DOMAIN db_leads :
            ScoredBy(r, lead_id) =>
                LET result == score_lead(db_leads[lead_id])
                IN  /\ db_leads'[lead_id].score = result.score
                    /\ db_leads'[lead_id].score_reason = Some(Join(result.reasons, "; "))
                    /\ db_leads'[lead_id].status
                           = (IF result.score >= 70 THEN "qualified"
                              ELSE db_leads[lead_id].status)
                    /\ db_leads' = [db_leads EXCEPT ![lead_id] =
                                        [@ EXCEPT !.score = db_leads'[lead_id].score,
                                                  !.score_reason = db_leads'[lead_id].score_reason,
                                                  !.status = db_leads'[lead_id].status]] ]_vars

\* C22 witness: a lead that was "sent" scored below 70 and is still "sent",
\* with the score and reasons stored.
C22_Witness ==
    /\ \E r \in 1..MaxRequests : requests[r] # Idle
    /\ db_leads[1].status = "sent"
    /\ db_leads[1].score_reason # None
    /\ db_leads[1].score < 70
    /\ db_leads[1].score > 0

-----------------------------------------------------------------------------
(* Properties of the sending handlers (checked under SpecSend and SpecSendApproved) *)

\* the number of messages the provider accepted today
SentToday == BagCardinality(mailbox)

\* the number of messages the provider accepted today for the lead
SentTo(lead_id) ==
    BagCardinality([msg \in { x \in BagToSet(mailbox) : x.lead_id = lead_id }
                       |-> mailbox[msg]])

\* no request is between its first read and its response
Quiescent == \A r \in 1..MaxRequests : requests[r] = Idle \/ requests[r].pc = "done"

\* C23: in every sequence and every interleaving of the send operations the
\* number of emails successfully sent on one day never exceeds
\* DAILY_SEND_LIMIT = 100.
C23_DailyLimitHolds == SentToday <= DAILY_SEND_LIMIT

\* C24: send_email_to_lead and send_batch_emails send only to leads whose
\* status is "approved" and a successful send sets the status to "sent", so
\* that in any sequence or interleaving of the two a lead, approved once, is
\* emailed at most once.
C24_AtMostOncePerApproval ==
    \A lead_id \in DOMAIN db_leads :
        /\ SentTo(lead_id) <= 1
        /\ (Quiescent /\ SentTo(lead_id) = 1) => db_leads[lead_id].status = "sent"

\* C30: after any sequence or interleaving of send operations the daily
\* counter equals the number of SentEmail rows of the day: every successful
\* send adds exactly one row and exactly one to the counter, and no
\* increment is lost.
C30_CounterMatchesLog ==
    Quiescent =>
        /\ get_daily_email_count = BagCardinality(sent_emails)
        /\ BagCardinality(sent_emails) = SentToday

\* request r handles a failed send in this step
HandlesFailure(r) ==
    /\ requests[r].op # "idle"
    /\ requests[r].pc = "record"
    /\ requests[r].result = "failure"
    /\ requests'[r] # requests[r]

\* request r of approve_and_send_lead calls the provider after this step
BeginsWorkflowSend(r) ==
    /\ requests[r] = Idle
    /\ requests'[r].op = "approve_and_send_lead"
    /\ requests'[r].pc = "send"

\* C25: when the mail provider reports a failed send, no send operation
\* records a SentEmail row, increments the daily counter or sets the lead's
\* status to "sent"; approve_and_send_lead leaves the lead in status
\* "approved" for retry (the status it committed before the send, which
\* the failure leaves as the database has it), and approve_lead,
\* send_email_to_lead and send_reply_email leave the lead's status
\* unchanged. (In send_batch_emails the step may commit what the earlier
\* leads of the batch added to the session, and nothing for the lead whose
\* send failed.)
C25_FailedSendRecordsNothing ==
    [][ \A r \in 1..MaxRequests :
          /\ BeginsWorkflowSend(r) =>
                db_leads'[requests'[r].lead_ids[1]].status = "approved"
          /\ HandlesFailure(r) =>
                LET req == requests[r]
                    lead_id == req.lead_ids[req.at]
                IN  IF req.op = "send_batch_emails"
                    THEN /\ db_leads'[lead_id] = db_leads[lead_id]
                         /\ \/ /\ requests'[r].pc = "send"
                               /\ requests'[r].session = req.session
                               /\ UNCHANGED dbVars
                            \/ /\ requests'[r].pc = "done"
                               /\ Commit(req.session) \/ UNCHANGED dbVars
                    ELSE /\ UNCHANGED dbVars
                         /\ requests'[r].pc = "done"
                         /\ req.op = "approve_and_send_lead" =>
                                requests'[r].response.status = "approved" ]_vars

\* C25 witness: approve_and_send_lead answered "approved" after a failed
\* send; the lead is approved, nothing was sent or logged for it and the
\* counter has no row.
C25_Witness ==
    /\ \E r \in 1..MaxRequests :
           /\ requests[r].op = "approve_and_send_lead"
           /\ requests[r].pc = "done"
           /\ requests[r].response = [status |-> "approved"]
    /\ db_leads[1].status = "approved"
    /\ db_leads[2].status = "qualified"
    /\ mailbox = EmptyBag
    /\ sent_emails = EmptyBag
    /\ daily_email_counts = None

\* C26: approve_and_send_lead with dry_run=true never sends an email and
\* leaves the lead's status, the sent-email log and the daily counter
\* unchanged; the only change it may make is storing a generated subject and
\* body when the lead has no draft.
C26_DryRunOnlyStoresDraft ==
    [][ \A r \in 1..MaxRequests, lead_id \in RequestedIds, connected \in BOOLEAN :
            approve_and_send_lead_start(r, lead_id, TRUE, connected) =>
                /\ UNCHANGED << mailbox, sent_emails, daily_email_counts >>
                /\ requests'[r].pc = "done"
                /\ \/ UNCHANGED db_leads
                   \/ /\ lead_id \in DOMAIN db_leads
                      /\ ~HasDraft(db_leads[lead_id])
                      /\ LET generated == draft_outreach_email(db_leads[lead_id])
                         IN  db_leads' =
                                 [db_leads EXCEPT
                                      ![lead_id].email_subject = Some(generated.subject),
                                      ![lead_id].email_body = Some(generated.body)] ]_vars

\* C26 witness: a dry run answered with the draft it generated for a lead
\* that had none; the lead is still "qualified" and nothing was sent.
C26_Witness ==
    /\ \E r \in 1..MaxRequests :
           /\ requests[r].op = "approve_and_send_lead"
           /\ requests[r].pc = "done"
           /\ "status" \in DOMAIN requests[r].response
           /\ requests[r].response.status = "dry_run"
           /\ requests[r].response.subject = db_leads[1].email_subject
    /\ db_leads[1].status = "qualified"
    /\ Truthy(db_leads[1].email_subject) /\ Truthy(db_leads[1].email_body)
    /\ mailbox = EmptyBag
    /\ sent_emails = EmptyBag

=============================================================================
